---- MODULE Spec2Model ----
(***************************************************************************)
(* A model of curlmin (github.com/noperator/curlmin): the curl-command     *)
(* parser/editor of pkg/curlmin/curl_parser.go and the reduction engine    *)
(* of pkg/curlmin (MinimizeCurlCommand and its helpers).                   *)
(*                                                                         *)
(* Text is modelled as a sequence of lexemes (Seq(STRING)): a lexeme is    *)
(* either one significant character (a quote, a space, ';', '=', ':',      *)
(* '?', '&') or an atom standing for a run of ordinary characters          *)
(* ("curl", "Cookie", "-H", "auth_key").  The string functions of the      *)
(* source (strings.Trim, Split, HasPrefix, url.Parse, ...) are modelled    *)
(* on that representation.                                                 *)
(*                                                                         *)
(* Indices are 1-based here: model index i is Go index i-1.                *)
(***************************************************************************)
EXTENDS Integers, Sequences, FiniteSets

(***************************************************************************)
(* Lexeme-level string library (Go's strings package).                     *)
(***************************************************************************)

SetMin(S) == CHOOSE x \in S : \A y \in S : x <= y

\* strings.HasPrefix(s, p)
HasPrefix(s, p) == Len(s) >= Len(p) /\ SubSeq(s, 1, Len(p)) = p

\* strings.TrimPrefix(s, p)
TrimPrefix(s, p) == IF HasPrefix(s, p) THEN SubSeq(s, Len(p) + 1, Len(s)) ELSE s

\* strings.Trim(s, cutset): every leading and trailing lexeme of cutset goes
Trim(s, cutset) ==
    IF \A i \in 1..Len(s) : s[i] \in cutset THEN <<>>
    ELSE SubSeq(s,
                CHOOSE i \in 1..Len(s) :
                    s[i] \notin cutset /\ \A k \in 1..(i - 1) : s[k] \in cutset,
                CHOOSE i \in 1..Len(s) :
                    s[i] \notin cutset /\ \A k \in (i + 1)..Len(s) : s[k] \in cutset)

\* strings.TrimSpace(s)
TrimSpace(s) == Trim(s, {" "})

\* strings.ToLower on one atom: the atoms that hold upper-case letters
LowerOf(c) ==
    CASE c = "Cookie"  -> "cookie"
      [] c = "COOKIE"  -> "cookie"
      [] c = "Referer" -> "referer"
      [] c = "X-A"     -> "x-a"
      [] c = "X-B"     -> "x-b"
      [] c = "X-C"     -> "x-c"
      [] c = "X-D"     -> "x-d"
      [] c = "POST"    -> "post"
      [] c = "CURL"    -> "curl"
      [] OTHER         -> c

\* strings.ToLower(s)
ToLower(s) == [i \in 1..Len(s) |-> LowerOf(s[i])]

\* strings.Index(s, sep) for a one-lexeme separator; 0 when absent
IndexOf(s, sep) ==
    LET hits == {i \in 1..Len(s) : s[i] = sep}
    IN  IF hits = {} THEN 0 ELSE SetMin(hits)

\* strings.Cut(s, sep)
Cut(s, sep) ==
    LET i == IndexOf(s, sep)
    IN  IF i = 0
        THEN [found |-> FALSE, before |-> s, after |-> <<>>]
        ELSE [found |-> TRUE, before |-> SubSeq(s, 1, i - 1),
              after |-> SubSeq(s, i + 1, Len(s))]

\* strings.Split(s, sep): always at least one segment
RECURSIVE Split(_, _)
Split(s, sep) ==
    LET c == Cut(s, sep)
    IN  IF c.found THEN <<c.before>> \o Split(c.after, sep) ELSE <<s>>

\* strings.Join(parts, sep)
RECURSIVE Join(_, _)
Join(parts, sep) ==
    IF parts = <<>> THEN <<>>
    ELSE IF Len(parts) = 1 THEN parts[1]
    ELSE parts[1] \o sep \o Join(Tail(parts), sep)

\* the quote characters of strings.Trim(x, "'\"")
QuoteChars == {"'", "\""}

\* strings.HasPrefix(x, "-") on a printed token: the dash is the first
\* character of every flag atom
FlagAtoms == {"-H", "--header", "-b", "--cookie", "-X", "-d", "-s", "--compressed"}
StartsWithDash(s) == s # <<>> /\ s[1] \in FlagAtoms

(***************************************************************************)
(* Shell parsing and printing (mvdan.cc/sh/v3/syntax as the source uses    *)
(* it).  A word keeps its quotes, as the printer prints it.  The texts     *)
(* drawn below hold no unquoted shell operator, so a text is one simple    *)
(* command.                                                                *)
(***************************************************************************)

\* the open quote ("" outside quotes) after character c is read in state q
QuoteStep(q, c) ==
    IF q # "" THEN (IF c = q THEN "" ELSE q)
    ELSE IF c \in QuoteChars THEN c ELSE ""

QuoteStates == QuoteChars \cup {""}

\* what reading s[lo..hi] does to the open quote
RECURSIVE QuoteMap(_, _, _)
QuoteMap(s, lo, hi) ==
    IF lo > hi THEN [q \in QuoteStates |-> q]
    ELSE IF lo = hi THEN [q \in QuoteStates |-> QuoteStep(q, s[lo])]
    ELSE [q \in QuoteStates |->
             QuoteMap(s, (lo + hi) \div 2 + 1, hi)[
                 QuoteMap(s, lo, (lo + hi) \div 2)[q]]]

\* the open quote after s[lo..hi] is read in state q
QuoteAfter(s, lo, hi, q) == QuoteMap(s, lo, hi)[q]

\* the scan of s from position from on, entered with open quote q: the
\* positions of the spaces outside quotes (with those of acc) and the quote
\* left open at the end
RECURSIVE Scan(_, _, _, _, _)
Scan(s, spaces, from, q, acc) ==
    IF \A p \in spaces : p <= from
    THEN [blanks |-> acc, open |-> QuoteAfter(s, from + 1, Len(s), q)]
    ELSE LET p  == SetMin({n \in spaces : n > from})
             q2 == QuoteAfter(s, from + 1, p - 1, q)
         IN  IF q2 = "" THEN Scan(s, spaces, p, "", acc \cup {p})
             ELSE Scan(s, spaces, p, q2, acc)

\* the positions where a word of s starts, given the blanks
WordStarts(s, blanks) ==
    {i \in 1..Len(s) : i \notin blanks /\ (i = 1 \/ i - 1 \in blanks)}

\* the k-th smallest member of a set of numbers
Nth(S, k) == CHOOSE x \in S : Cardinality({y \in S : y < x}) = k - 1

\* the word of s that starts at position a
WordAt(s, blanks, a) ==
    SubSeq(s, a, SetMin({j \in blanks : j > a} \cup {Len(s) + 1}) - 1)

\* the words of s in order
WordsOf(s, blanks, starts) ==
    SubSeq([k \in 1..Cardinality(starts) |-> WordAt(s, blanks, Nth(starts, k))],
           1, Cardinality(starts))

wordsIn(s, scan) ==
    IF scan.open # "" THEN [err |-> TRUE, words |-> <<>>]
    ELSE [err |-> FALSE,
          words |-> WordsOf(s, scan.blanks, WordStarts(s, scan.blanks))]

\* syntax.Parser.Parse on one line: the words of the command, or an error on
\* an unterminated quote
ShellWords(s) ==
    wordsIn(s, Scan(s, {i \in 1..Len(s) : s[i] = " "}, 0, "", {}))

\* syntax.Printer.Print of the program: the words, one space apart
ToString(args) == Join(args, <<" ">>)

\* the words of the text, whether or not the parser accepted it
ParseUnchecked(curlCmd) == [err |-> FALSE, Args |-> ShellWords(curlCmd).words]

\* ParseCurlCommand: Args of the first statement, or an error
ParseCurlCommand(curlCmd) ==
    LET t0   == TrimSpace(curlCmd)
        t1   == IF HasPrefix(t0, <<"curl", " ">>) THEN t0 ELSE <<"curl", " ">> \o t0
        prog == ShellWords(t1)
    IN  IF prog.err THEN [err |-> TRUE, Args |-> <<>>]
        ELSE IF prog.words = <<>> THEN [err |-> TRUE, Args |-> <<>>]
        ELSE IF ~ \E i \in 1..Len(prog.words[1]) :
                      LowerOf(prog.words[1][i]) = "curl"
             THEN [err |-> TRUE, Args |-> <<>>]
        ELSE [err |-> FALSE, Args |-> prog.words]

(***************************************************************************)
(* net/url as the source uses it.                                          *)
(***************************************************************************)

\* atoms made of letters, digits, '+', '-', '.' that start with a letter
SchemeAtoms ==
    {"http", "https", "Cookie", "cookie", "COOKIE", "Referer", "referer",
     "X-A", "X-B", "X-C", "X-D", "x-a", "x-b", "x-c", "x-d",
     "a", "b", "c", "d", "e", "p", "q", "r", "s", "k", "h", "y", "v", "w",
     "curl", "POST", "data", "flag"}
\* atoms of scheme characters that may not start a scheme
SchemeTailAtoms == {"1", "2", "3", "4"} \cup FlagAtoms

SlashAtoms == {"/", "//"}

\* url.getScheme: scheme and rest; err for a leading ':'
getScheme(s) ==
    LET stop == {i \in 1..Len(s) : s[i] \notin SchemeAtoms \cup SchemeTailAtoms}
        k    == IF stop = {} THEN 0 ELSE SetMin(stop)
    IN  IF s = <<>> THEN [err |-> FALSE, scheme |-> <<>>, rest |-> s]
        ELSE IF s[1] = ":" THEN [err |-> TRUE, scheme |-> <<>>, rest |-> s]
        ELSE IF s[1] \in SchemeAtoms /\ k > 1 /\ s[k] = ":"
             THEN [err |-> FALSE, scheme |-> SubSeq(s, 1, k - 1),
                   rest |-> SubSeq(s, k + 1, Len(s))]
        ELSE [err |-> FALSE, scheme |-> <<>>, rest |-> s]

BadURL == [err |-> TRUE, Scheme |-> <<>>, Body |-> <<>>, RawQuery |-> <<>>,
           ForceQuery |-> FALSE]

\* url.Parse after getScheme: Body is the opaque part or the //host/path
\* part, verbatim
parseRest(scheme, rest) ==
    LET nq    == Cardinality({i \in 1..Len(rest) : rest[i] = "?"})
        force == rest # <<>> /\ rest[Len(rest)] = "?" /\ nq = 1
        body  == IF force THEN SubSeq(rest, 1, Len(rest) - 1)
                 ELSE Cut(rest, "?").before
        query == IF force THEN <<>> ELSE Cut(rest, "?").after
    IN  [scheme |-> scheme, body |-> body, query |-> query, force |-> force]

\* the first path segment of body
firstSegment(body) ==
    LET segEnd == {i \in 1..Len(body) : body[i] \in SlashAtoms}
    IN  IF segEnd = {} THEN body ELSE SubSeq(body, 1, SetMin(segEnd) - 1)

checkURL(p, slash, seg) ==
    LET ok == [err |-> FALSE, Scheme |-> ToLower(p.scheme), Body |-> p.body,
               RawQuery |-> p.query, ForceQuery |-> p.force]
    IN  IF ~slash /\ p.scheme # <<>> THEN ok            \* opaque
        ELSE IF ~slash /\ \E i \in 1..Len(seg) : seg[i] = ":" THEN BadURL
        ELSE IF \E i \in 1..Len(p.body) : p.body[i] = "%zz" THEN BadURL
        ELSE ok

parseURL(p) ==
    checkURL(p, p.body # <<>> /\ p.body[1] \in SlashAtoms, firstSegment(p.body))

afterScheme(g) == IF g.err THEN BadURL ELSE parseURL(parseRest(g.scheme, g.rest))

\* url.Parse
UrlParse(s) == afterScheme(getScheme(s))

\* URL.String
UrlString(u) ==
    (IF u.Scheme = <<>> THEN <<>> ELSE u.Scheme \o <<":">>)
    \o u.Body
    \o (IF u.ForceQuery \/ u.RawQuery # <<>> THEN <<"?">> \o u.RawQuery ELSE <<>>)

\* url.QueryUnescape / url.QueryEscape on one lexeme
QueryUnescape(c) == CASE c = "%2F" -> "/" [] c = "+" -> " " [] OTHER -> c
QueryEscape(c)   == CASE c = "/" -> "%2F" [] c = " " -> "+" [] OTHER -> c
Unescaped(s) == [i \in 1..Len(s) |-> QueryUnescape(s[i])]
Escaped(s)   == [i \in 1..Len(s) |-> QueryEscape(s[i])]

\* url.ParseQuery: url.Values as the decoded (key, value) pairs in order of
\* appearance (the values of a key keep that order); err as the source's err
RECURSIVE ParsePairs(_)
ParsePairs(segs) ==
    IF segs = <<>> THEN [err |-> FALSE, pairs |-> <<>>]
    ELSE LET seg  == Head(segs)
             more == ParsePairs(Tail(segs))
             kv   == Cut(seg, "=")
             bad  == \E i \in 1..Len(seg) : seg[i] \in {";", "%zz"}
         IN  IF bad THEN [err |-> TRUE, pairs |-> more.pairs]
             ELSE IF seg = <<>> THEN more
             ELSE [err |-> more.err,
                   pairs |-> <<[k |-> Unescaped(kv.before),
                                v |-> Unescaped(kv.after)]>> \o more.pairs]

ParseQuery(rawQuery) == ParsePairs(Split(rawQuery, "&"))

\* the keys of a url.Values
Keys(pairs) == {pairs[i].k : i \in 1..Len(pairs)}

\* byte order of the query keys drawn below (sort.Strings in Values.Encode)
KeyOrder == <<<<"a">>, <<"auth_key">>, <<"b">>, <<"p">>, <<"q">>, <<"r">>, <<"s">>>>
KeyRank(k) ==
    LET hits == {i \in 1..Len(KeyOrder) : KeyOrder[i] = k}
    IN  IF hits = {} THEN 0 ELSE SetMin(hits)

RECURSIVE SortKeys(_)
SortKeys(S) ==
    IF S = {} THEN <<>>
    ELSE LET m == CHOOSE k \in S : \A o \in S : KeyRank(k) <= KeyRank(o)
         IN  <<m>> \o SortKeys(S \ {m})

\* url.Values.Encode: keys sorted, the values of a key in their order
Encode(pairs) ==
    LET sorted == SortKeys(Keys(pairs))
        ofKey(k) == SelectSeq(pairs, LAMBDA p : p.k = k)
        one(p) == Escaped(p.k) \o <<"=">> \o Escaped(p.v)
        RECURSIVE enc(_)
        enc(ps) == IF ps = <<>> THEN <<>>
                   ELSE <<one(Head(ps))>> \o enc(Tail(ps))
        RECURSIVE all(_)
        all(ks) == IF ks = <<>> THEN <<>>
                   ELSE enc(ofKey(Head(ks))) \o all(Tail(ks))
    IN  Join(all(sorted), <<"&">>)

\* url.Values without one key (the copy loops of minimizeQueryParams, Del)
Without(pairs, key) == SelectSeq(pairs, LAMBDA p : p.k # key)

(***************************************************************************)
(* CurlCommand (curl_parser.go).  A CurlCommand is its Command.Args: the   *)
(* sequence of printed words; every method of the source reads a word      *)
(* through printer.Print.                                                  *)
(***************************************************************************)

\* the elements of a finite set of integers, ascending
RECURSIVE Ascending(_)
Ascending(S) ==
    IF S = {} THEN <<>> ELSE <<SetMin(S)>> \o Ascending(S \ {SetMin(S)})

HeaderFlags == {<<"-H">>, <<"--header">>}
CookieFlags == {<<"-b">>, <<"--cookie">>}

\* strings.HasPrefix(strings.ToLower(headerStr), "cookie:")
IsCookieHeader(headerStr) == HasPrefix(ToLower(headerStr), <<"cookie", ":">>)

\* FindHeaderArgs: the header flags that have a following word
FindHeaderArgs(args) ==
    Ascending({i \in 2..Len(args) :
        TrimSpace(args[i]) \in HeaderFlags /\ i + 1 <= Len(args)})

\* FindCookieArgs: the cookie flags, and the header flags of a Cookie header
FindCookieArgs(args) ==
    Ascending({i \in 2..Len(args) :
        \/ TrimSpace(args[i]) \in CookieFlags /\ i + 1 <= Len(args)
        \/ /\ TrimSpace(args[i]) \in HeaderFlags
           /\ i + 1 <= Len(args)
           /\ IsCookieHeader(Trim(args[i + 1], QuoteChars))})

\* FindURLArg.  The i++ of the source's range loop does not skip the next
\* word: range assigns i anew on every iteration.
FindURLArg(args) ==
    LET str(i) == Trim(args[i], QuoteChars)
        inner  == {i \in 2..(Len(args) - 1) :
                      /\ ~StartsWithDash(str(i))
                      /\ ~StartsWithDash(str(i - 1))
                      /\ ~UrlParse(str(i)).err}
        last   == Len(args)
    IN  IF inner # {} THEN [err |-> FALSE, index |-> SetMin(inner)]
        ELSE IF last > 1 /\ ~StartsWithDash(str(last)) /\ ~UrlParse(str(last)).err
             THEN [err |-> FALSE, index |-> last]
        ELSE [err |-> TRUE, index |-> 0]

\* the words of args without those at the indices in gone
Drop(args, gone) == 
    LET keep == Ascending({i \in 1..Len(args) : i \notin gone})
    IN  [j \in 1..Len(keep) |-> args[keep[j]]]

\* a removal that never takes the following word
RemoveOne(args, index) ==
    IF index < 2 \/ index > Len(args) THEN args ELSE Drop(args, {index})

\* a removal that removes nothing
KeepArg(args, index) == args

\* RemoveArg
RemoveArg(args, index) ==
    IF index < 2 \/ index > Len(args) THEN args
    ELSE IF /\ index + 1 <= Len(args)
            /\ StartsWithDash(args[index])
            /\ ~StartsWithDash(args[index + 1])
         THEN Drop(args, {index, index + 1})
    ELSE Drop(args, {index})

\* the Lit word the source builds: "'" + value + "'"
Quoted(value) == <<"'">> \o value \o <<"'">>

\* RemoveQueryParam, from the parsed URL on
queryRemoved(args, index, u, q, param) ==
    IF u.err THEN [err |-> TRUE, Args |-> args]
    ELSE IF u.RawQuery = <<>> THEN [err |-> FALSE, Args |-> args]
    ELSE IF q.err THEN [err |-> TRUE, Args |-> args]
    ELSE [err |-> FALSE,
          Args |-> [args EXCEPT ![index] =
                       Quoted(UrlString([u EXCEPT !.RawQuery =
                                            Encode(Without(q.pairs, param))]))]]

urlRemoved(args, index, u, param) ==
    queryRemoved(args, index, u, ParseQuery(u.RawQuery), param)

argRemoved(args, f, param) ==
    IF f.err THEN [err |-> TRUE, Args |-> args]
    ELSE urlRemoved(args, f.index, UrlParse(Trim(args[f.index], QuoteChars)), param)

\* RemoveQueryParam
RemoveQueryParam(args, param) == argRemoved(args, FindURLArg(args), param)

\* the entries loop of parseCookieString: the trimmed entries that have an
\* '=' and another name
RECURSIVE KeptCookies(_, _)
KeptCookies(cookies, cookieName) ==
    IF cookies = <<>> THEN <<>>
    ELSE LET cookie == TrimSpace(Head(cookies))
             parts  == Cut(cookie, "=")
             rest   == KeptCookies(Tail(cookies), cookieName)
         IN  IF cookie = <<>> THEN rest
             ELSE IF parts.found /\ TrimSpace(parts.before) # cookieName
                  THEN <<cookie>> \o rest
             ELSE rest

\* a parseCookieString that never reports that nothing is left
NeverEmpty(cookieStr, cookieName) ==
    [str |-> Join(KeptCookies(Split(cookieStr, ";"), cookieName), <<";", " ">>),
     allRemoved |-> FALSE]

\* parseCookieString
parseCookieString(cookieStr, cookieName) ==
    LET newCookies == KeptCookies(Split(cookieStr, ";"), cookieName)
    IN  IF newCookies = <<>> THEN [str |-> <<>>, allRemoved |-> TRUE]
        ELSE [str |-> Join(newCookies, <<";", " ">>), allRemoved |-> FALSE]

\* the two TrimPrefix calls that strip the header name
StripCookiePrefix(s) ==
    TrimPrefix(TrimPrefix(s, <<"Cookie", ":">>), <<"cookie", ":">>)

\* RemoveCookieFromArg
RemoveCookieFromArg(args, argIndex, cookieName, isHeader) ==
    LET raw == Trim(args[argIndex + 1], QuoteChars)
        cookieStr == IF isHeader THEN StripCookiePrefix(raw) ELSE raw
        r == parseCookieString(cookieStr, cookieName)
        value == IF isHeader THEN Quoted(<<"Cookie", ":", " ">> \o r.str)
                 ELSE Quoted(r.str)
    IN  IF argIndex < 2 \/ argIndex > Len(args) - 1
        THEN [err |-> TRUE, Args |-> args]
        ELSE IF isHeader /\ ~IsCookieHeader(raw)
        THEN [err |-> TRUE, Args |-> args]
        ELSE IF r.allRemoved
        THEN [err |-> FALSE, Args |-> RemoveArg(args, argIndex)]
        ELSE [err |-> FALSE, Args |-> [args EXCEPT ![argIndex + 1] = value]]

(***************************************************************************)
(* Responses and compareResponses.  A body is a sequence of one-character  *)
(* lexemes, so its length is its byte count.                               *)
(***************************************************************************)

WhiteSpace == {" ", "\n"}

\* len(strings.Fields(body))
WordCount(body) ==
    Cardinality({i \in 1..Len(body) :
        body[i] \notin WhiteSpace /\ (i = 1 \/ body[i - 1] \in WhiteSpace)})

\* len(strings.Split(body, "\n"))
LineCount(body) == Len(Split(body, "\n"))

\* len(body)
ByteCount(body) == Len(body)

\* a comparison that takes byte lengths one apart as equal
Near(key, r1, r2) ==
    CASE key = "status" -> r1.StatusCode = r2.StatusCode
      [] key = "body"   -> r1.Body = r2.Body
      [] key = "words"  -> WordCount(r1.Body) = WordCount(r2.Body)
      [] key = "lines"  -> LineCount(r1.Body) = LineCount(r2.Body)
      [] key = "bytes"  -> ByteCount(r1.Body) - ByteCount(r2.Body) \in {-1, 0, 1}

\* the comparisons map of compareResponses; md5 is taken as injective
Comparison(key, r1, r2) ==
    CASE key = "status" -> r1.StatusCode = r2.StatusCode
      [] key = "body"   -> r1.Body = r2.Body
      [] key = "words"  -> WordCount(r1.Body) = WordCount(r2.Body)
      [] key = "lines"  -> LineCount(r1.Body) = LineCount(r2.Body)
      [] key = "bytes"  -> ByteCount(r1.Body) = ByteCount(r2.Body)

ComparisonKeys == {"status", "body", "words", "lines", "bytes"}

\* the optionsMap of compareResponses, before the default is applied
OptionsMap(opts) ==
    [key \in ComparisonKeys |->
        CASE key = "status" -> opts.CompareStatusCode
          [] key = "body"   -> opts.CompareBodyContent
          [] key = "words"  -> opts.CompareWordCount
          [] key = "lines"  -> opts.CompareLineCount
          [] key = "bytes"  -> opts.CompareByteCount]

\* optionsMap without the default
NoDefault(opts) == OptionsMap(opts)

\* optionsMap after "if !anyEnabled { optionsMap["body"] = true }"
EnabledMap(opts) ==
    LET optionsMap == OptionsMap(opts)
        anyEnabled == \E key \in ComparisonKeys : optionsMap[key]
    IN  IF anyEnabled THEN optionsMap ELSE [optionsMap EXCEPT !["body"] = TRUE]

\* a comparison that is satisfied with one agreeing predicate
SomeAgree(opts, resp1, resp2) ==
    \E key \in ComparisonKeys :
        EnabledMap(opts)[key] /\ Comparison(key, resp1, resp2)

\* compareResponses
compareResponses(opts, resp1, resp2) ==
    \A key \in ComparisonKeys :
        EnabledMap(opts)[key] => Comparison(key, resp1, resp2)

(***************************************************************************)
(* The request a command line makes, and the test server                   *)
(* (testserver/server.go): a server that answers 200 exactly when every    *)
(* element it requires is in the request.                                  *)
(***************************************************************************)

\* the name=value entries of a cookie string, by name, as the server's
\* r.Cookies() sees them
RECURSIVE CookieNamesOf(_)
CookieNamesOf(entries) ==
    IF entries = <<>> THEN {}
    ELSE LET e == TrimSpace(Head(entries))
             c == Cut(e, "=")
         IN  (IF c.found THEN {[cat |-> "cookie", name |-> TrimSpace(c.before)]}
              ELSE {})
             \cup CookieNamesOf(Tail(entries))

\* the headers, cookies and query keys of the request that words makes
RECURSIVE RequestOf(_, _)
RequestOf(words, k) ==
    IF k > Len(words) THEN {}
    ELSE LET w    == Trim(words[k], QuoteChars)
             val  == IF k + 1 <= Len(words) THEN Trim(words[k + 1], QuoteChars)
                     ELSE <<>>
             h    == Cut(val, ":")
             u    == UrlParse(w)
         IN  IF words[k] \in HeaderFlags /\ k + 1 <= Len(words)
             THEN (IF IsCookieHeader(val)
                   THEN CookieNamesOf(Split(h.after, ";"))
                   ELSE {[cat |-> "header", name |-> ToLower(h.before)]})
                  \cup RequestOf(words, k + 2)
             ELSE IF words[k] \in CookieFlags /\ k + 1 <= Len(words)
             THEN CookieNamesOf(Split(val, ";")) \cup RequestOf(words, k + 2)
             ELSE IF ~u.err /\ u.Scheme = <<"http">>
             THEN {[cat |-> "param", name |-> key] :
                      key \in Keys(ParseQuery(u.RawQuery).pairs)}
                  \cup RequestOf(words, k + 1)
             ELSE RequestOf(words, k + 1)

Request(cmd) ==
    LET p == ShellWords(cmd)
    IN  IF p.err THEN {} ELSE RequestOf(p.words, 2)

(***************************************************************************)
(* The oracle: what executeCurlCommand returns for a command line.         *)
(***************************************************************************)

NoResp == [StatusCode |-> 0, Body |-> <<>>]

RespOK     == [StatusCode |-> 200, Body |-> <<"a", " ", "b">>]
RespAlt    == [StatusCode |-> 200, Body |-> <<"b", " ", "a", "a">>]
RespDenied == [StatusCode |-> 401, Body |-> <<"a">>]

ExecError == [err |-> TRUE, resp |-> NoResp]
Returned(r) == [err |-> FALSE, resp |-> r]
\* a call fails, or returns one of the responses the server can give
AllOutcomes(answers) == {ExecError} \cup {Returned(r) : r \in answers}

\* the test server: 200 when every required element is in the request; an
\* unparsable command line makes sh exit nonzero
ServerOutcome(required, cmd) ==
    IF ShellWords(cmd).err THEN ExecError
    ELSE IF required \subseteq Request(cmd) THEN Returned(RespOK)
    ELSE Returned(RespDenied)

(***************************************************************************)
(* The command lines and options the model draws.                          *)
(***************************************************************************)

\* the most plain headers, entries of a cookie carrier and unprotected query
\* parameters of a drawn command line
MaxHeaders == 2
MaxEntries == 2
MaxParams  == 2
\* the most elements (headers + entries + parameters) of a command line that
\* is run against an arbitrary deterministic oracle
MaxElements == 2

HeaderNames == <<"X-A", "X-B", "X-C", "X-D">>
CookieNames == <<"a", "b", "c", "d">>
ParamNames  == <<"p", "q", "r", "s">>
Digits      == <<"1", "2", "3", "4">>

RECURSIVE Flatten(_)
Flatten(seqs) == IF seqs = <<>> THEN <<>> ELSE Head(seqs) \o Flatten(Tail(seqs))

HeaderWords(n) ==
    Flatten([i \in 1..n |->
        << <<"-H">>, Quoted(<<HeaderNames[i], ":", " ", Digits[i]>>) >>])

CookieStr(n) ==
    Join([i \in 1..n |-> <<CookieNames[i], "=", Digits[i]>>], <<";", " ">>)

CarrierKinds == {"none", "Cookie", "-b"}

CarrierWords(kind, n) ==
    CASE kind = "none" -> <<>>
      [] kind = "-b"   -> << <<"-b">>, Quoted(CookieStr(n)) >>
      [] OTHER         -> << <<"-H">>, Quoted(<<kind, ":", " ">> \o CookieStr(n)) >>

\* the unprotected parameters in descending key order, then auth_key
QueryStr(n, auth) ==
    Join([i \in 1..n |-> <<ParamNames[n + 1 - i], "=", Digits[n + 1 - i]>>]
         \o (IF auth THEN << <<"auth_key", "=", "k">> >> ELSE <<>>), <<"&">>)

UrlWord(n, auth) ==
    Quoted(<<"http", ":", "//", "h", "/">>
           \o (IF n = 0 /\ ~auth THEN <<>> ELSE <<"?">> \o QueryStr(n, auth)))

GenInput(h, kind, e, p, auth) ==
    ToString(<< <<"curl">> >> \o HeaderWords(h) \o CarrierWords(kind, e)
             \o << UrlWord(p, auth) >>)

\* the drawn command lines of at most total elements
GenInputs(total) ==
    {GenInput(c[1], c[2], c[3], c[4], c[5]) :
        c \in {d \in (0..MaxHeaders) \X CarrierKinds \X (1..MaxEntries)
                       \X (0..MaxParams) \X BOOLEAN :
                  /\ d[2] = "none" => d[3] = 1
                  /\ d[1] + (IF d[2] = "none" THEN 0 ELSE d[3]) + d[4] <= total}}

\* curl -H 'COOKIE: a=1; b=2' 'http://h/?auth_key=k'
UpperInput ==
    ToString(<< <<"curl">>, <<"-H">>,
                Quoted(<<"COOKIE", ":", " ">> \o CookieStr(MaxEntries)),
                UrlWord(0, TRUE) >>)

\* curl -s 'http://h/?p=1' -H 'Referer: http://y/?a=1'
RefererInput ==
    <<"curl", " ", "-s", " ", "'", "http", ":", "//", "h", "/", "?", "p", "=",
      "1", "'", " ", "-H", " ", "'", "Referer", ":", " ", "http", ":", "//",
      "y", "/", "?", "a", "=", "1", "'">>

\* curl -X POST -d 'data' --header "cookie: a=1; flag" --cookie 'b=2' 'http://h/'
MixedInput ==
    <<"curl", " ", "-X", " ", "POST", " ", "-d", " ", "'", "data", "'", " ",
      "--header", " ", "\"", "cookie", ":", " ", "a", "=", "1", ";", " ",
      "flag", "\"", " ", "--cookie", " ", "'", "b", "=", "2", "'", " ",
      "'", "http", ":", "//", "h", "/", "'">>

\* curl -b "a=' '; b=2" 'http://h/'
QuotedInput ==
    <<"curl", " ", "-b", " ", "\"", "a", "=", "'", " ", "'", ";", " ", "b",
      "=", "2", "\"", " ", "'", "http", ":", "//", "h", "/", "'">>

\* curl -H 'X-A: 1' -b 'a=1' -s        (no URL operand)
NoUrlInput ==
    <<"curl", " ", "-H", " ", "'", "X-A", ":", " ", "1", "'", " ", "-b", " ",
      "'", "a", "=", "1", "'", " ", "-s">>

\* curl -H 'X-A: 1' -b 'a=1' 'http://h/?p=%zz&q=2'   (an invalid escape)
BadQueryInput ==
    <<"curl", " ", "-H", " ", "'", "X-A", ":", " ", "1", "'", " ", "-b", " ",
      "'", "a", "=", "1", "'", " ", "'", "http", ":", "//", "h", "/", "?",
      "p", "=", "%zz", "&", "q", "=", "2", "'">>

\* curl -s 'http://h/?p=1' -d 'v?a=1'
DataInput ==
    <<"curl", " ", "-s", " ", "'", "http", ":", "//", "h", "/", "?", "p", "=",
      "1", "'", " ", "-d", " ", "'", "v", "?", "a", "=", "1", "'">>

\* curl 'http://h/        (the quote is never closed)
BadInput == <<"curl", " ", "'", "http", ":", "//", "h", "/">>

(***************************************************************************)
(* The Minimizer (MinimizeCurlCommand and the three category reducers).    *)
(***************************************************************************)

VARIABLES
    options,       \* Minimizer.options
    oracle,        \* how the HTTP client and server answer (see Outcomes)
    input,         \* the curlCmd given to MinimizeCurlCommand
    curl,          \* curl.Command.Args of the working command
    baselineResp,  \* the baseline Response
    pc,            \* where MinimizeCurlCommand stands
    err,           \* the error it returned ("" for nil)
    result,        \* the string it returned
    idxs,          \* headerIndices / cookieIndices of the current pass
    i,             \* position of the range loop in idxs
    j,             \* position of the entry loop in the carrier's cookies
    todo,          \* keys the range over the query map has not visited yet
    memo,          \* the answers a deterministic oracle has given so far
    passes,        \* iterations of the current category's outer loop
    start,         \* candidates of the current category when it began
    last,          \* the last candidate tested
    run,           \* 1: the run on input; 2: a further run
    first,         \* what the first run returned
    probe,         \* a re-test of the returned command, after a run
    calls,         \* the command lines executed in this run, in order
    fault,         \* the execution fault of a run with one transient fault
    exec,          \* the executeCurlCommand call in progress and its capture files
    trace,         \* the kept/removed records printed in verbose mode
    ran,           \* the command lines executed and rejected in the current pass
    tried,         \* the candidates rejected in the current pass of a category
    flags,         \* the comparison flags of one command line of the CLI
    compared       \* a call of compareResponses on two drawn responses

vars == <<options, oracle, input, curl, baselineResp, pc, err, result, idxs,
          i, j, todo, memo, passes, start, last, run, first, probe,
          calls, fault, exec, trace, ran, tried, flags, compared>>

\* a key that no drawn URL has: were it the skipped key, auth_key would be a
\* candidate like any other
NoSuchKey == <<"no_such_key">>

\* "if param == \"auth_key\" { continue }"
AuthKey == <<"auth_key">>

NoTest  == [cat |-> "none", cmd |-> <<>>, executed |-> FALSE, accepted |-> FALSE,
            failed |-> FALSE, elem |-> <<>>, resp |-> NoResp]
NoExec  == [at |-> "idle", n |-> 0, files |-> {}, deferred |-> {}, running |-> 0,
            failed |-> FALSE, from |-> "none"]
NoFirst == [input |-> <<>>, result |-> <<>>, calls |-> <<>>]
NoProbe == [kind |-> "none", cmd |-> <<>>, accepted |-> FALSE, elem |-> <<>>]
NoFault == [n |-> 0, cat |-> "none", elem |-> <<>>, later |-> FALSE]
NoCmp   == [called |-> FALSE, resp1 |-> NoResp, resp2 |-> NoResp, equal |-> FALSE,
            before |-> <<>>]

\* what executeCurlCommand may return for cmd
Outcomes(cmd) ==
    CASE oracle.kind = "any" -> AllOutcomes(oracle.answers)
      [] oracle.kind = "fn"  -> IF cmd \in DOMAIN memo THEN {memo[cmd]}
                                ELSE {Returned(r) : r \in oracle.answers}
      [] oracle.kind = "req" -> {ServerOutcome(oracle.required, cmd)}
      [] oracle.kind = "flaky" -> IF fault.n = 0 THEN AllOutcomes(oracle.answers)
                                  ELSE {Returned(r) : r \in oracle.answers}

\* a deterministic oracle answers the same command line the same way
Remember(cmd, r) ==
    IF oracle.kind = "fn" /\ cmd \notin DOMAIN memo
    THEN [c \in DOMAIN memo \cup {cmd} |-> IF c = cmd THEN r ELSE memo[c]]
    ELSE memo

\* "err == nil && canRemove" after testModification
\* an execution error counts as a removal that keeps the response
Lenient(r) == r.err \/ compareResponses(options, baselineResp, r.resp)

\* a test compares with the response of the test before it
AgainstPrevious(r) ==
    /\ ~r.err
    /\ compareResponses(options, IF last.executed /\ ~last.failed THEN last.resp
                                  ELSE baselineResp, r.resp)

\* "if err == nil && canRemove": no execution error and an equal response
Accepted(r) == ~r.err /\ compareResponses(options, baselineResp, r.resp)

\* PreprocessCurlCommand: comments stripped, lines folded, words one space apart
PreprocessCurlCommand(shellScript) ==
    LET p == ShellWords(shellScript)
    IN  IF p.err THEN [err |-> TRUE, text |-> <<>>]
        ELSE [err |-> FALSE, text |-> Join(p.words, <<" ">>)]

\* testModification up to the command it executes, given the copy and the
\* copy as modifyFunc leaves it
testModification(curlCopy, modified) ==
    IF curlCopy.err THEN [err |-> TRUE, cmd |-> <<>>]
    ELSE IF modified.err THEN [err |-> TRUE, cmd |-> <<>>]
    ELSE [err |-> FALSE, cmd |-> ToString(modified.Args)]

\* "curlCopy, err := ParseCurlCommand(originalCmd)"
CopyOf(args) == ParseCurlCommand(ToString(args))

\* the header value of minimizeHeaders / minimizeCookies: headerStr
HeaderStr(args, index) == Trim(args[index + 1], QuoteChars)

\* the first position at or after from whose header is not a Cookie header
\* (the "continue" of minimizeHeaders); 0 when the range is exhausted
NextHeader(args, hs, from) ==
    LET ok == {k \in from..Len(hs) :
                  ~(hs[k] + 1 <= Len(args) /\ IsCookieHeader(HeaderStr(args, hs[k])))}
    IN  IF ok = {} THEN 0 ELSE SetMin(ok)

\* the cookies of the carrier at cookieIndex, as minimizeCookies splits them
CarrierCookies(args, cookieIndex) ==
    LET headerStr == HeaderStr(args, cookieIndex)
    IN  Split(IF IsCookieHeader(headerStr) THEN StripCookiePrefix(headerStr)
              ELSE headerStr, ";")

\* the name minimizeCookies tests for an entry
CookieName(cookie) == TrimSpace(Cut(TrimSpace(cookie), "=").before)

\* the first entry at or after from that is not empty and has an '='
NextEntry(cookies, from) ==
    LET ok == {k \in from..Len(cookies) :
                  TrimSpace(cookies[k]) # <<>> /\ Cut(TrimSpace(cookies[k]), "=").found}
    IN  IF ok = {} THEN 0 ELSE SetMin(ok)

\* the URL and query minimizeQueryParams reads from the working command
queryIn(urlIndex, u, q) ==
    IF u.err THEN [ok |-> FALSE, urlIndex |-> 0, parsedURL |-> BadURL, query |-> <<>>]
    ELSE IF u.RawQuery = <<>> \/ q.err
    THEN [ok |-> FALSE, urlIndex |-> urlIndex, parsedURL |-> u, query |-> <<>>]
    ELSE [ok |-> TRUE, urlIndex |-> urlIndex, parsedURL |-> u, query |-> q.pairs]

queryOfURL(urlIndex, u) == queryIn(urlIndex, u, ParseQuery(u.RawQuery))

queryAt(args, f) ==
    IF f.err THEN [ok |-> FALSE, urlIndex |-> 0, parsedURL |-> BadURL, query |-> <<>>]
    ELSE queryOfURL(f.index, UrlParse(Trim(args[f.index], QuoteChars)))

QueryOf(args) == queryAt(args, FindURLArg(args))

\* the word minimizeQueryParams writes: the URL without param
UrlWithout(q, param) ==
    Quoted(UrlString([q.parsedURL EXCEPT
                         !.RawQuery = Encode(Without(q.query, param))]))

\* a position of the engine: in the loop over idxs, or at a category's start
At(c, k, e) == [pc |-> c, idxs |-> idxs, i |-> k, j |-> e, todo |-> {}]
To(c) == [pc |-> c, idxs |-> <<>>, i |-> 0, j |-> 0, todo |-> {}]

\* a failure in minimizeQueryParams ends the whole run
AbortAll(q) ==
    IF ~q.ok \/ Keys(q.query) \ {AuthKey} = {}
    THEN [pc |-> "done", idxs |-> <<>>, i |-> 0, j |-> 0, todo |-> {}]
    ELSE [pc |-> "qLoop", idxs |-> <<>>, i |-> 0, j |-> 0, todo |-> Keys(q.query)]

\* where control goes: the top of a category's outer loop
HeaderPass(args) ==
    LET hs == FindHeaderArgs(args)
        k  == NextHeader(args, hs, 1)
    IN  IF hs = <<>> \/ k = 0
        THEN [pc |-> "cookies", idxs |-> <<>>, i |-> 0, j |-> 0, todo |-> {}]
        ELSE [pc |-> "hdrLoop", idxs |-> hs, i |-> k, j |-> 0, todo |-> {}]

\* a pass that starts at the entries of the first carrier
EntriesFirst(args) ==
    LET cs == FindCookieArgs(args)
    IN  IF cs = <<>>
        THEN [pc |-> "params", idxs |-> <<>>, i |-> 0, j |-> 0, todo |-> {}]
        ELSE [pc |-> "ckEntry", idxs |-> cs, i |-> 1, j |-> 1, todo |-> {}]

\* a pass of minimizeCookies: "cookieIndices := curl.FindCookieArgs()", then
\* the range loop, which tests the whole argument first
CookiePass(args) ==
    LET cs == FindCookieArgs(args)
    IN  IF cs = <<>>
        THEN [pc |-> "params", idxs |-> <<>>, i |-> 0, j |-> 0, todo |-> {}]
        ELSE [pc |-> "ckArg", idxs |-> cs, i |-> 1, j |-> 0, todo |-> {}]

passOver(q) ==
    IF ~q.ok \/ Keys(q.query) \ {AuthKey} = {}
    THEN [pc |-> "finish", idxs |-> <<>>, i |-> 0, j |-> 0, todo |-> {}]
    ELSE [pc |-> "qLoop", idxs |-> <<>>, i |-> 0, j |-> 0, todo |-> Keys(q.query)]

QueryPass(args) == passOver(QueryOf(args))

Goto(c) ==
    /\ pc' = c.pc
    /\ idxs' = c.idxs
    /\ i' = c.i
    /\ j' = c.j
    /\ todo' = c.todo

\* the candidates of a category in args
HeaderCount(args) ==
    LET hs == FindHeaderArgs(args)
    IN  Cardinality({k \in 1..Len(hs) : NextHeader(args, hs, k) = k})
CookieCount(args) ==
    LET cs == FindCookieArgs(args)
        RECURSIVE sum(_)
        sum(k) == IF k > Len(cs) THEN 0
                  ELSE LET cookies == CarrierCookies(args, cs[k])
                       IN  1 + Cardinality({e \in 1..Len(cookies) :
                                               NextEntry(cookies, e) = e})
                           + sum(k + 1)
    IN  sum(1)
countOf(q) == IF q.ok THEN Cardinality(Keys(q.query) \ {AuthKey}) ELSE 0
ParamCount(args) == countOf(QueryOf(args))

Options(h, c, p, cmp) ==
    [MinimizeHeaders |-> h, MinimizeCookies |-> c, MinimizeParams |-> p,
     Verbose |-> FALSE,
     CompareStatusCode |-> "status" \in cmp, CompareBodyContent |-> "body" \in cmp,
     CompareWordCount |-> "words" \in cmp, CompareLineCount |-> "lines" \in cmp,
     CompareByteCount |-> "bytes" \in cmp]

CategoryOptions(cmp) ==
    {Options(h, c, p, cmp) : h \in BOOLEAN, c \in BOOLEAN, p \in BOOLEAN}

\* the servers drawn: at most one required element of each category
Servers(cmd) ==
    {req \in SUBSET Request(cmd) :
        \A a \in req : \A b \in req : a.cat = b.cat => a = b}

\* curl -H 'X-A: 1' -H 'X-B: 2' -H 'Cookie: a=1; b=2' 'http://h/?q=2&p=1&auth_key=k'
JointInput == GenInput(2, "Cookie", 2, 2, TRUE)

\* curl -H 'X-A: 1' -H 'X-B: 2' -b 'a=1; b=2' 'http://h/?q=2&p=1'
JointFlagInput == GenInput(2, "-b", 2, 2, FALSE)

\* the drawn command lines with the most elements of one category, two with
\* elements of every category, and the particular ones
FullInputs ==
    {GenInput(MaxHeaders, "none", 1, 0, FALSE),
     GenInput(0, "Cookie", MaxEntries, 0, FALSE),
     GenInput(0, "-b", MaxEntries, 0, FALSE),
     GenInput(0, "none", 1, MaxParams, TRUE),
     JointInput, JointFlagInput}
    \cup {UpperInput, RefererInput, MixedInput, QuotedInput, BadInput}

SmallInputs == GenInputs(MaxElements) \cup {QuotedInput}

AnyOracle == [kind |-> "any", required |-> {}, answers |-> {RespOK, RespDenied}]
FnOracle  == [kind |-> "fn", required |-> {}, answers |-> {RespOK, RespAlt}]
ReqOracle(req) == [kind |-> "req", required |-> req, answers |-> {RespOK, RespDenied}]

\* an oracle whose execution fails at most once in a run
FlakyOracle == [kind |-> "flaky", required |-> {}, answers |-> {RespOK, RespDenied}]

AllEnabled(cmp) == Options(TRUE, TRUE, TRUE, cmp)

\* one category enabled, or none
FewEnabled ==
    {o \in CategoryOptions({}) :
        Cardinality({c \in {"h", "c", "p"} :
            \/ c = "h" /\ o.MinimizeHeaders
            \/ c = "c" /\ o.MinimizeCookies
            \/ c = "p" /\ o.MinimizeParams}) <= 1}

Configs ==
    {[options |-> o, oracle |-> AnyOracle, input |-> x] :
        o \in CategoryOptions({}), x \in FullInputs}
    \cup
    {[options |-> o, oracle |-> FnOracle, input |-> x] :
        o \in FewEnabled \cup {AllEnabled({}), AllEnabled({"status", "words"})},
        x \in SmallInputs}
    \cup
    UNION {{[options |-> AllEnabled({}), oracle |-> ReqOracle(req), input |-> x] :
               req \in Servers(x)} : x \in FullInputs \ {BadInput}}

\* nothing has run yet
\* no command line of the CLI is being read
NoFlags == [given |-> <<>>, parsed |-> FALSE]

\* the Minimizer before MinimizeCurlCommand is called
Unstarted ==
    /\ curl = <<>>
    /\ baselineResp = NoResp
    /\ pc = "start"
    /\ err = ""
    /\ result = <<>>
    /\ idxs = <<>>
    /\ i = 0
    /\ j = 0
    /\ todo = {}
    /\ memo = <<>>
    /\ passes = 0
    /\ start = 0
    /\ last = NoTest
    /\ run = "first"
    /\ first = NoFirst
    /\ probe = NoProbe
    /\ calls = <<>>
    /\ fault = NoFault
    /\ tried = {}
    /\ ran = {}
    /\ trace = <<>>
    /\ exec = NoExec
    /\ compared = NoCmp

Idle == flags = NoFlags /\ Unstarted

Init ==
    /\ \E c \in Configs : options = c.options /\ oracle = c.oracle /\ input = c.input
    /\ Idle

\* the runs in which at most one execution fails
FlakyInit ==
    /\ options \in CategoryOptions({})
    /\ oracle = FlakyOracle
    /\ input \in FullInputs
    /\ Idle

\* the baseline is not checked: its error is reported and the engine goes on
GoOn(r) ==
    [pc |-> "headers", err |-> IF r.err THEN "baseline" ELSE ""]

\* "if err != nil { return \"\", fmt.Errorf(\"failed to get baseline response\") }"
AfterBaseline(r) ==
    IF r.err THEN [pc |-> "done", err |-> "baseline"]
    ELSE [pc |-> "headers", err |-> ""]

\* MinimizeCurlCommand up to the baseline: preprocess, parse, execute
Start ==
    /\ pc = "start"
    /\ LET pre    == PreprocessCurlCommand(input)
           parsed == ParseCurlCommand(IF pre.err THEN input ELSE pre.text)
       IN  IF parsed.err
           THEN /\ pc' = "done"
                /\ err' = "parse"
                /\ UNCHANGED <<flags, curl, baselineResp, memo, calls>>
           ELSE \E r \in Outcomes(ToString(parsed.Args)) :
                /\ memo' = Remember(ToString(parsed.Args), r)
                /\ calls' = <<ToString(parsed.Args)>>
                /\ curl' = parsed.Args
                /\ pc' = AfterBaseline(r).pc
                /\ err' = AfterBaseline(r).err
                /\ baselineResp' = IF r.err THEN baselineResp ELSE r.resp
    /\ UNCHANGED <<flags, trace, ran, tried, fault, exec, compared, options, oracle, input, result, idxs, i, j, todo, passes,
                   start, last, run, first, probe>>

\* "if m.options.MinimizeHeaders { m.minimizeHeaders(...) }": the first pass
HeadersBegin ==
    /\ pc = "headers"
    /\ IF options.MinimizeHeaders
       THEN Goto(HeaderPass(curl)) /\ passes' = 1 /\ start' = HeaderCount(curl)
       ELSE Goto(To("cookies"))
            /\ passes' = 0 /\ start' = 0
    /\ tried' = {}
    /\ ran' = {}
    /\ UNCHANGED trace
    /\ UNCHANGED <<flags, fault, calls, exec, compared, options, oracle, input, curl, baselineResp, err, result,
                   memo, last, run, first, probe>>

\* the pass goes on after a commit
NoRestart(r, again, onward) == onward

\* "if canRemove { ...; foundRemovable = true; break }": after a commit the
\* range loop is left and the outer loop starts a pass (again); otherwise the
\* range loop goes on (onward)
Continue(r, again, onward) == IF Accepted(r) THEN again ELSE onward

\* the test edits the working command itself
Aliased(r, new) == new

\* "if err == nil && canRemove { ...; curl.RemoveArg(headerIndex) }": the
\* working command after a test; the test itself ran on a copy
Committed(r, new) == IF Accepted(r) THEN new ELSE curl

\* the position in the command of the candidate under test (0: the URL)
Where == IF i \in DOMAIN idxs THEN idxs[i] ELSE 0

\* the reducer a candidate belongs to
Reducer(cat) ==
    CASE cat = "header" -> "headers"
      [] cat \in {"carrier", "entry"} -> "cookies"
      [] cat = "param" -> "params"
      [] OTHER -> "none"

\* the record of a run's transient fault: the candidate whose execution
\* failed, and whether its reducer committed a removal after that
Noted(cat, elem, t, r) ==
    IF oracle.kind # "flaky" THEN fault
    ELSE IF ~t.err /\ r.err
         THEN [n |-> fault.n + 1, cat |-> cat, elem |-> elem, later |-> FALSE]
    ELSE IF Accepted(r) /\ fault.n > 0 /\ Reducer(cat) = Reducer(fault.cat)
         THEN [fault EXCEPT !.later = TRUE]
    ELSE fault

\* the test prints its record: "Header not needed" / "Header needed" and
\* the like; minimizeCookies prints nothing for an entry whose test returned
\* an error ("if err != nil { continue }")
Emits(cat, t, r) == cat # "entry" \/ ~(t.err \/ r.err)

\* "canRemove, err := m.testModification(...); if err == nil && canRemove":
\* the test of one candidate, then the commit and the next pass (again), or
\* the next candidate (onward)
Attempt(cat, elem, t, new, again, onward) ==
    \E r \in (IF t.err THEN {ExecError} ELSE Outcomes(t.cmd)) :
        /\ fault' = Noted(cat, elem, t, r)
        /\ tried' = IF Accepted(r) THEN {}
                    ELSE tried \cup {[cat |-> cat, elem |-> elem, at |-> Where]}
        /\ trace' = IF options.Verbose /\ Emits(cat, t, r)
                    THEN Append(trace, [cat |-> cat, elem |-> elem, removed |-> Accepted(r)])
                    ELSE trace
        /\ ran' = IF Accepted(r) THEN {}
                  ELSE IF t.err THEN ran
                  ELSE ran \cup {[cat |-> cat, elem |-> elem, at |-> Where, cmd |-> t.cmd]}
        /\ memo' = IF t.err THEN memo ELSE Remember(t.cmd, r)
        /\ calls' = IF t.err THEN calls ELSE Append(calls, t.cmd)
        /\ last' = [cat |-> cat, cmd |-> t.cmd, executed |-> ~t.err,
                    accepted |-> Accepted(r), failed |-> r.err, elem |-> elem,
                    resp |-> r.resp]
        /\ curl' = Committed(r, new)
        /\ Goto(Continue(r, again, onward))
        /\ passes' = IF Accepted(r) THEN passes + 1 ELSE passes

\* minimizeHeaders ends at the first header it keeps
LeaveEarly(k) == To("cookies")

\* the header after position k of the range loop, or the end of minimizeHeaders
AfterHeader(k) == IF k = 0 THEN To("cookies") ELSE At("hdrLoop", k, 0)

\* one iteration of minimizeHeaders' range loop
HeaderStep ==
    /\ pc = "hdrLoop"
    /\ Attempt("header", HeaderStr(curl, idxs[i]),
               testModification(CopyOf(curl),
                   [err |-> FALSE, Args |-> RemoveArg(CopyOf(curl).Args, idxs[i])]),
               RemoveArg(curl, idxs[i]),
               HeaderPass(RemoveArg(curl, idxs[i])),
               AfterHeader(NextHeader(curl, idxs, i + 1)))
    /\ UNCHANGED <<flags, exec, compared, options, oracle, input, baselineResp, err, result, start,
                   run, first, probe>>

\* "if m.options.MinimizeCookies { m.minimizeCookies(...) }": the first pass
CookiesBegin ==
    /\ pc = "cookies"
    /\ IF options.MinimizeCookies
       THEN Goto(CookiePass(curl)) /\ passes' = 1 /\ start' = CookieCount(curl)
       ELSE Goto(To("params"))
            /\ passes' = 0 /\ start' = 0
    /\ tried' = {}
    /\ ran' = {}
    /\ UNCHANGED trace
    /\ UNCHANGED <<flags, fault, calls, exec, compared, options, oracle, input, curl, baselineResp, err, result,
                   memo, last, run, first, probe>>

\* where minimizeCookies goes after the carrier at position k is done with
AfterCarrier(k) ==
    IF k + 1 > Len(idxs) THEN To("params") ELSE At("ckArg", k + 1, 0)

\* the entry e of the carrier at position k, or the next carrier
AfterEntry(k, e) == IF e = 0 THEN AfterCarrier(k) ELSE At("ckEntry", k, e)

\* minimizeCookies on one carrier: the test of the whole argument
CookieArgStep ==
    /\ pc = "ckArg"
    /\ Attempt("carrier", HeaderStr(curl, idxs[i]),
               testModification(CopyOf(curl),
                   [err |-> FALSE, Args |-> RemoveArg(CopyOf(curl).Args, idxs[i])]),
               RemoveArg(curl, idxs[i]),
               CookiePass(RemoveArg(curl, idxs[i])),
               AfterEntry(i, NextEntry(CarrierCookies(curl, idxs[i]), 1)))
    /\ UNCHANGED <<flags, exec, compared, options, oracle, input, baselineResp, err, result, start,
                   run, first, probe>>

\* the removal minimizeCookies tests and commits for entry e of the carrier
\* at cookieIndex
EntryRemoved(args, cookieIndex, cookieName) ==
    RemoveCookieFromArg(args, cookieIndex, cookieName,
                        IsCookieHeader(HeaderStr(curl, cookieIndex)))

EntryAttempt(cookieIndex, cookies, cookieName) ==
    Attempt("entry", cookieName,
            testModification(CopyOf(curl),
                EntryRemoved(CopyOf(curl).Args, cookieIndex, cookieName)),
            EntryRemoved(curl, cookieIndex, cookieName).Args,
            CookiePass(EntryRemoved(curl, cookieIndex, cookieName).Args),
            AfterEntry(i, NextEntry(cookies, j + 1)))

EntryOf(cookieIndex, cookies) ==
    EntryAttempt(cookieIndex, cookies, CookieName(cookies[j]))

\* one iteration of minimizeCookies' entry loop
CookieEntryStep ==
    /\ pc = "ckEntry"
    /\ EntryOf(idxs[i], CarrierCookies(curl, idxs[i]))
    /\ UNCHANGED <<flags, exec, compared, options, oracle, input, baselineResp, err, result, start,
                   run, first, probe>>

\* "if m.options.MinimizeParams { m.minimizeQueryParams(...) }": the first pass
ParamsBegin ==
    /\ pc = "params"
    /\ IF options.MinimizeParams
       THEN Goto(QueryPass(curl)) /\ passes' = 1 /\ start' = ParamCount(curl)
       ELSE Goto(To("finish"))
            /\ passes' = 0 /\ start' = 0
    /\ tried' = {}
    /\ ran' = {}
    /\ UNCHANGED trace
    /\ UNCHANGED <<flags, fault, calls, exec, compared, options, oracle, input, curl, baselineResp, err, result,
                   memo, last, run, first, probe>>

\* the test command of minimizeQueryParams: the copy with testWord for its URL
UrlSet(c, f, testWord) ==
    IF f.err THEN [err |-> TRUE, Args |-> c]
    ELSE [err |-> FALSE, Args |-> [c EXCEPT ![f.index] = testWord]]

\* the parameters left to visit, or the end of minimizeQueryParams
AfterParam(left) ==
    IF left \ {AuthKey} = {} THEN To("finish")
    ELSE [pc |-> "qLoop", idxs |-> <<>>, i |-> 0, j |-> 0, todo |-> left]

ParamAttempt(param, q, testWord) ==
    Attempt("param", param,
            testModification(CopyOf(curl),
                UrlSet(CopyOf(curl).Args, FindURLArg(CopyOf(curl).Args), testWord)),
            [curl EXCEPT ![q.urlIndex] = testWord],
            QueryPass([curl EXCEPT ![q.urlIndex] = testWord]),
            AfterParam(todo \ {param}))

ParamOf(param, q) == ParamAttempt(param, q, UrlWithout(q, param))

\* one iteration of minimizeQueryParams' range over the query map: Go visits
\* the keys of a map in an unspecified order, so param is any key not yet
\* visited; auth_key is skipped
QueryStep ==
    /\ pc = "qLoop"
    /\ \E param \in todo \ {AuthKey} : ParamOf(param, QueryOf(curl))
    /\ UNCHANGED <<flags, exec, compared, options, oracle, input, baselineResp, err, result, start,
                   run, first, probe>>

\* the end of MinimizeCurlCommand: the working command as a string
Finish ==
    /\ pc = "finish"
    /\ pc' = "done"
    /\ result' = ToString(curl)
    /\ UNCHANGED <<flags, trace, ran, tried, fault, calls, exec, compared, options, oracle, input, curl, baselineResp, err, idxs, i, j,
                   todo, memo, passes, start, last, run, first, probe>>

\* an oracle that answers a command line the same way every time
Deterministic == oracle.kind \in {"fn", "req"}

\* the single removals the engine knows, applied to args: every header that
\* is not a Cookie header, every cookie carrier, every cookie entry with a
\* name, every query parameter (auth_key too)
HeaderProbes(args, hs) ==
    {[kind |-> "header", elem |-> HeaderStr(args, hs[k]),
      cmd |-> ToString(RemoveArg(args, hs[k]))] :
        k \in {n \in 1..Len(hs) : NextHeader(args, hs, n) = n}}

CarrierProbes(args, cs) ==
    {[kind |-> "carrier", elem |-> HeaderStr(args, cs[k]),
      cmd |-> ToString(RemoveArg(args, cs[k]))] : k \in 1..Len(cs)}

EntryProbesOf(args, cookieIndex, cookies, isHeader) ==
    {[kind |-> "entry", elem |-> CookieName(cookies[e]),
      cmd |-> ToString(RemoveCookieFromArg(args, cookieIndex,
                           CookieName(cookies[e]), isHeader).Args)] :
        e \in {n \in 1..Len(cookies) : NextEntry(cookies, n) = n}}

EntryProbes(args, cs) ==
    UNION {EntryProbesOf(args, cs[k], CarrierCookies(args, cs[k]),
                         IsCookieHeader(HeaderStr(args, cs[k]))) : k \in 1..Len(cs)}

ParamProbes(args, q) ==
    IF ~q.ok THEN {}
    ELSE {[kind |-> "param", elem |-> param,
           cmd |-> ToString([args EXCEPT ![q.urlIndex] = UrlWithout(q, param)])] :
             param \in Keys(q.query)}

Removals(args) ==
    HeaderProbes(args, FindHeaderArgs(args))
    \cup CarrierProbes(args, FindCookieArgs(args))
    \cup EntryProbes(args, FindCookieArgs(args))
    \cup ParamProbes(args, QueryOf(args))

Probes(cmd) ==
    {[kind |-> "self", elem |-> <<>>, cmd |-> cmd]}
    \cup Removals(ParseCurlCommand(cmd).Args)

\* after a run: the returned command, or the returned command less one
\* element, is given to the oracle once more
Retest ==
    /\ pc = "done"
    /\ run = "first"
    /\ err = ""
    /\ Deterministic
    /\ \E p \in Probes(result) : \E r \in Outcomes(p.cmd) :
           probe' = [kind |-> p.kind, cmd |-> p.cmd, accepted |-> Accepted(r),
                     elem |-> p.elem]
    /\ pc' = "probed"
    /\ UNCHANGED <<flags, trace, ran, tried, fault, calls, exec, compared, options, oracle, input, curl, baselineResp, err, result, idxs,
                   i, j, todo, memo, passes, start, last, run, first>>

\* a further run of MinimizeCurlCommand with the same options and the same
\* oracle, on the command line given
Rerun(kind, cmd, opts) ==
    /\ pc = "done"
    /\ run = "first"
    /\ err = ""
    /\ Deterministic
    /\ first' = [input |-> input, result |-> result, calls |-> calls]
    /\ options' = opts
    /\ run' = kind
    /\ input' = cmd
    /\ pc' = "start"
    /\ curl' = <<>>
    /\ baselineResp' = NoResp
    /\ result' = <<>>
    /\ passes' = 0
    /\ tried' = {}
    /\ ran' = {}
    /\ trace' = <<>>
    /\ start' = 0
    /\ last' = NoTest
    /\ calls' = <<>>
    /\ UNCHANGED <<flags, fault, exec, compared, oracle, err, idxs, i, j, todo, memo, probe>>

\* the runs in verbose mode against an oracle that may answer anything
VerboseInit ==
    /\ options \in {[o EXCEPT !.Verbose = TRUE] : o \in CategoryOptions({})}
    /\ oracle = AnyOracle
    /\ input \in FullInputs
    /\ Idle

\* the engine is run on its own output
SecondRun == Rerun("second", result, options)

\* the engine is run on the same input again
Replay == Rerun("replay", input, options)

\* the engine is run on the same input again, with Verbose set
VerboseRun == Rerun("verbose", input, [options EXCEPT !.Verbose = TRUE])

Next ==
    \/ Start
    \/ HeadersBegin
    \/ HeaderStep
    \/ CookiesBegin
    \/ CookieArgStep
    \/ CookieEntryStep
    \/ ParamsBegin
    \/ QueryStep
    \/ Finish
    \/ Retest
    \/ SecondRun
    \/ Replay
    \/ VerboseRun

Spec == Init /\ [][Next]_vars

\* the steps of MinimizeCurlCommand itself
Engine ==
    \/ Start
    \/ HeadersBegin
    \/ HeaderStep
    \/ CookiesBegin
    \/ CookieArgStep
    \/ CookieEntryStep
    \/ ParamsBegin
    \/ QueryStep
    \/ Finish

\* the runs of MinimizeCurlCommand against an oracle that may answer anything
\* at every call: whatever an oracle answers, the run is one of these
AnyInit == Init /\ oracle.kind = "any"

EngineSpec == AnyInit /\ [][Engine]_vars

\* the runs against an oracle that may answer anything and the runs against
\* the test servers
ServedInit == Init /\ oracle.kind \in {"any", "req"}

ServedSpec == ServedInit /\ [][Engine]_vars

VerboseSpec == VerboseInit /\ [][Engine]_vars

\* the runs on the command lines that have words of no reducible category
FrameInit ==
    /\ options \in CategoryOptions({})
    /\ oracle = AnyOracle
    /\ input \in {MixedInput, NoUrlInput, RefererInput, DataInput, JointInput}
    /\ Idle

FrameSpec == FrameInit /\ [][Engine]_vars

\* MinimizeCurlCommand is sequential code and every oracle call returns: a run
\* that has not returned takes its next step.  Some step of Engine is enabled
\* exactly when pc is neither "done" nor "probed", so this is WF_vars(Engine)
\* with ENABLED <<Engine>>_vars written out.
Fairness == []<>(pc \in {"done", "probed"}) \/ []<><<Engine>>_vars

FairSpec == EngineSpec /\ Fairness

\* the runs on command lines whose URL cannot be found or decoded, and on one
\* whose URL can
UrlInputs == {NoUrlInput, BadQueryInput, GenInput(1, "-b", 1, MaxParams, FALSE)}

UrlInit ==
    /\ options \in CategoryOptions({})
    /\ oracle = AnyOracle
    /\ input \in UrlInputs
    /\ Idle

UrlSpec == UrlInit /\ [][Engine]_vars

\* the runs of MinimizeCurlCommand in which at most one execution fails
FaultSpec == FlakyInit /\ [][Engine]_vars

(***************************************************************************)
(* executeCurlCommand step by step, called by the engine.  In the          *)
(* specifications above a call is one step of the engine; here the engine  *)
(* (Caller) waits at every call until executeCurlCommand has gone through  *)
(* its statements: two os.CreateTemp with their deferred os.Remove,        *)
(* cmd.Run, two os.ReadFile, return.  exec.n counts the calls that have     *)
(* returned; a capture file is named by its kind and the number of its     *)
(* call (os.CreateTemp never returns the name of an existing file).        *)
(***************************************************************************)

\* everything but exec
engine ==
    <<flags, options, oracle, input, curl, baselineResp, pc, err, result, idxs, i, j, todo,
      memo, passes, start, last, run, first, probe, calls, fault, trace, ran, tried,
      compared>>

ExecInit ==
    /\ options = AllEnabled({})
    /\ oracle = AnyOracle
    /\ input \in {JointInput, MixedInput}
    /\ Idle

\* the capture file of a kind of the call in progress
Capture(kind) == [kind |-> kind, call |-> exec.n + 1]

\* the engine is where its next step calls executeCurlCommand, and every
\* call before has returned and was taken up
Invoke ==
    /\ exec.at = "idle"
    /\ exec.n = Len(calls)
    /\ \/ pc = "start" /\ ~ParseCurlCommand(input).err
       \/ pc \in {"hdrLoop", "ckArg", "ckEntry", "qLoop"}
    /\ exec' = [exec EXCEPT !.at = "body", !.failed = FALSE, !.from = "none"]
    /\ UNCHANGED engine

\* "return Response{}, fmt.Errorf(...)" at the statement e.at
Failing(e) == [e EXCEPT !.at = "return", !.failed = TRUE, !.from = e.at]

\* "tmpFile, err := os.CreateTemp(...); if err != nil { return ... };
\*  defer os.Remove(tmpFile.Name())", for a capture file of a kind
Created(e, kind, next) ==
    [e EXCEPT !.at = next,
              !.files = @ \cup {[kind |-> kind, call |-> e.n + 1]},
              !.deferred = @ \cup {[kind |-> kind, call |-> e.n + 1]}]

CreateBody ==
    /\ exec.at = "body"
    /\ exec' \in {Created(exec, "response", "headers"), Failing(exec)}
    /\ UNCHANGED engine

CreateHeaders ==
    /\ exec.at = "headers"
    /\ exec' \in {Created(exec, "headers", "run"), Failing(exec)}
    /\ UNCHANGED engine

\* cmd.Start without cmd.Wait: the client is left running
NoWait(e, next) == [e EXCEPT !.at = next]

\* the second half of cmd.Run: the client has exited
Waited(e, next) == [e EXCEPT !.at = next, !.running = @ - 1]

\* "err = cmd.Run()": the client is started ...
RunStart ==
    /\ exec.at = "run"
    /\ exec' = [exec EXCEPT !.at = "wait", !.running = @ + 1]
    /\ UNCHANGED engine

\* ... and has exited, with status 0 or not
RunEnd ==
    /\ exec.at = "wait"
    /\ exec' \in {Waited(exec, "readBody"), Waited(Failing(exec), "return")}
    /\ UNCHANGED engine

\* "respBytes, err := os.ReadFile(tmpFile.Name())"
ReadBody ==
    /\ exec.at = "readBody"
    /\ exec' \in {[exec EXCEPT !.at = "readHeaders"], Failing(exec)}
    /\ UNCHANGED engine

\* "headerBytes, err := os.ReadFile(tmpHeaderFile.Name())"
ReadHeaders ==
    /\ exec.at = "readHeaders"
    /\ exec' \in {[exec EXCEPT !.at = "return"], Failing(exec)}
    /\ UNCHANGED engine

\* a return that runs the deferred removal of the header file only
HeadersOnly(files, deferred) == files \ {f \in deferred : f.kind = "headers"}

\* the deferred calls of os.Remove at a return
Released(files, deferred) == files \ deferred

\* the return of executeCurlCommand, on whatever path
Return ==
    /\ exec.at = "return"
    /\ exec' = [exec EXCEPT !.at = "idle", !.n = @ + 1,
                            !.files = Released(exec.files, exec.deferred),
                            !.deferred = {}]
    /\ UNCHANGED engine

\* a step of the engine: with the result of the call that has returned, or
\* without a call
Caller ==
    /\ exec.at = "idle"
    /\ Engine
    /\ IF exec.n = Len(calls)
       THEN calls' = calls
       ELSE /\ calls' # calls
            /\ pc = "start" => (err' = "baseline") = exec.failed
            /\ pc # "start" => last'.failed = exec.failed

Executing ==
    \/ Invoke
    \/ CreateBody
    \/ CreateHeaders
    \/ RunStart
    \/ RunEnd
    \/ ReadBody
    \/ ReadHeaders
    \/ Return
    \/ Caller

ExecSpec == ExecInit /\ [][Executing]_vars

(***************************************************************************)
(* ParseCurlCommand on its own: the text is any sequence of a few atoms.    *)
(***************************************************************************)

MaxText == 4

TextAtoms == {"curl", "wget", " ", "'"}
Texts == UNION {[1..n -> TextAtoms] : n \in 0..MaxText}

InitParse ==
    /\ options = AllEnabled({})
    /\ oracle = AnyOracle
    /\ input \in Texts
    /\ Idle

\* "curl, err := ParseCurlCommand(curlCmd)": one call on the text
Parse ==
    /\ pc = "start"
    /\ pc' = "parsed"
    /\ curl' = ParseCurlCommand(input).Args
    /\ err' = IF ParseCurlCommand(input).err THEN "parse" ELSE ""
    /\ UNCHANGED <<flags, trace, ran, tried, fault, calls, exec, compared, options, oracle, input, baselineResp, result,
                   idxs, i, j, todo, memo, passes, start, last, run, first, probe>>

SpecParse == InitParse /\ [][Parse]_vars

(***************************************************************************)
(* RemoveArg on its own: the command is curl and a few words, the index is *)
(* any position in it or just outside it.  Positions count from 1: the     *)
(* source's index k is position k + 1.                                     *)
(***************************************************************************)

MaxArgs == 3

ArgWords == {<<"-H">>, <<"-s">>, <<"'", "-s", "'">>, <<"x">>}
ArgLists == UNION {[1..n -> ArgWords] : n \in 0..MaxArgs}

InitArg ==
    /\ options = AllEnabled({})
    /\ oracle = AnyOracle
    /\ input = <<>>
    /\ Idle

\* "c.RemoveArg(index)": one call on any command at any index
Remove ==
    /\ pc = "start"
    /\ pc' = "removed"
    /\ \E args \in ArgLists, index \in 0..(MaxArgs + 2) :
           /\ curl' = <<<<"curl">>>> \o args
           /\ i' = index
           /\ result' = RemoveArg(<<<<"curl">>>> \o args, index)
    /\ UNCHANGED <<flags, trace, ran, tried, fault, calls, exec, compared, options, oracle, input, baselineResp, err,
                   idxs, j, todo, memo, passes, start, last, run, first, probe>>

SpecArg == InitArg /\ [][Remove]_vars

(***************************************************************************)
(* RemoveQueryParam on its own: the command has one URL operand whose query *)
(* is any sequence of a few parameters; the method is called at most twice. *)
(***************************************************************************)

MaxQuery == 3

QuerySegments == {<<"q", "=", "2">>, <<"p", "=", "1">>, <<"p", "=", "3">>, <<"a">>}
QueryKeys == {<<"p">>, <<"q">>, <<"a">>, <<"r">>}
RawQueries == {Join(segs, <<"&">>) : segs \in UNION {[1..n -> QuerySegments] : n \in 0..MaxQuery}}

\* 'http://h/?...', or 'http://h/' for the empty query
UrlOf(rawQuery) ==
    Quoted(<<"http", ":", "//", "h", "/">>
           \o (IF rawQuery = <<>> THEN <<>> ELSE <<"?">> \o rawQuery))

\* curl 'http://h/?...'   and   curl -s 'http://h/?...' -H 'Referer: http://y/?p=1'
QueryTexts ==
    {ToString(<< <<"curl">>, UrlOf(q) >>) : q \in RawQueries}
    \cup
    {ToString(<< <<"curl">>, <<"-s">>, UrlOf(q), <<"-H">>,
                 Quoted(<<"Referer", ":", " ", "http", ":", "//", "y", "/", "?",
                          "p", "=", "1">>) >>) : q \in RawQueries}

InitQuery ==
    /\ options = AllEnabled({})
    /\ oracle = AnyOracle
    /\ input \in QueryTexts
    /\ Idle

\* "curl, err := ParseCurlCommand(curlCmd)"
Given ==
    /\ pc = "start"
    /\ pc' = "given"
    /\ curl' = ParseCurlCommand(input).Args
    /\ UNCHANGED <<flags, trace, ran, tried, fault, calls, exec, compared, options, oracle, input, baselineResp, err,
                   result, idxs, i, j, todo, memo, passes, start, last, run, first, probe>>

\* "err := curl.RemoveQueryParam(param)": a call on the command as the calls
\* before left it; calls holds the keys of the calls made
RemoveParam ==
    /\ pc = "given"
    /\ Len(calls) < 2
    /\ \E param \in QueryKeys :
           /\ curl' = RemoveQueryParam(curl, param).Args
           /\ err' = IF RemoveQueryParam(curl, param).err THEN "remove" ELSE err
           /\ calls' = Append(calls, param)
    /\ UNCHANGED <<flags, trace, ran, tried, fault, exec, compared, options, oracle, input, baselineResp, pc,
                   result, idxs, i, j, todo, memo, passes, start, last, run, first, probe>>

SpecQuery == InitQuery /\ [][Given \/ RemoveParam]_vars

(***************************************************************************)
(* FindURLArg on its own: the command is curl and a few words, each a flag *)
(* without a value, a flag with a value, a header value or a URL.          *)
(***************************************************************************)

MaxWords == 4

UrlWords == {<<"-s">>, <<"-H">>, Quoted(<<"X-A", ":", " ", "1">>),
             Quoted(<<"http", ":", "//", "h", "/">>)}
WordLists == UNION {[1..n -> UrlWords] : n \in 0..MaxWords}

\* "urlIndex, err := curl.FindURLArg()": one call on any command
Find ==
    /\ pc = "start"
    /\ pc' = "found"
    /\ \E args \in WordLists :
           /\ curl' = <<<<"curl">>>> \o args
           /\ i' = FindURLArg(<<<<"curl">>>> \o args).index
           /\ err' = IF FindURLArg(<<<<"curl">>>> \o args).err THEN "url" ELSE ""
    /\ UNCHANGED <<flags, trace, ran, tried, fault, calls, exec, compared, options, oracle, input, baselineResp,
                   result, idxs, j, todo, memo, passes, start, last, run, first, probe>>

SpecUrl == InitArg /\ [][Find]_vars

(***************************************************************************)
(* compareResponses on its own: the options are any set of comparison      *)
(* options, and the two responses are drawn.                               *)
(***************************************************************************)

MaxBody == 2

BodyAtoms == {"a", " ", "\n"}
Bodies == UNION {[1..n -> BodyAtoms] : n \in 0..MaxBody}
Responses == {[StatusCode |-> c, Body |-> b] : c \in {200, 401}, b \in Bodies}

InitCmp ==
    /\ options \in {AllEnabled(c) : c \in SUBSET ComparisonKeys}
    /\ oracle = AnyOracle
    /\ input = UpperInput
    /\ Idle

\* "m.compareResponses(resp1, resp2)": one call on any two responses; the
\* function reads the options and its arguments only
Compare ==
    /\ ~compared.called
    /\ \E resp1 \in Responses, resp2 \in Responses :
           compared' = [called |-> TRUE, resp1 |-> resp1, resp2 |-> resp2,
                   equal |-> compareResponses(options, resp1, resp2),
                   before |-> options]
    /\ UNCHANGED <<flags, exec, trace, ran, tried, fault, calls, options, oracle, input, curl, baselineResp, pc, err, result,
                   idxs, i, j, todo, memo, passes, start, last, run, first, probe>>

SpecCmp == InitCmp /\ [][Compare]_vars

(***************************************************************************)
(* The command line of the CLI (part_002): the flags are parsed into the   *)
(* package variables, Run adjusts the body comparison, builds the options  *)
(* and calls MinimizeCurlCommand.                                          *)
(***************************************************************************)

OtherComparisons == {"status", "words", "lines", "bytes"}

FlagNames == OtherComparisons \cup {"body", "headers", "cookies", "params", "verbose"}

\* the defaults of the flags (init: BoolVar(..., "body", true, ...))
Default(name) == name \in {"body", "headers", "cookies", "params"}

\* the command lines drawn: a comparison flag is left out, given (--status,
\* --status=true) or given as false (--status=false); a minimization flag
\* is left out or given as false; --verbose is left out
CommandLines ==
    {g \in [FlagNames -> {"unset", "true", "false"}] :
        /\ \A name \in {"headers", "cookies", "params"} : g[name] # "true"
        /\ g["verbose"] = "unset"}

\* pflag: the variable of a flag holds the value given, or the default
Value(given, name) ==
    IF given[name] = "unset" THEN Default(name) ELSE given[name] = "true"

\* a Visit that finds no flag
NeverSet(given) == FALSE

\* "cmd.Flags().Visit(...)": Visit calls the function for the flags that
\* were set on the command line
bodyFlagExplicitlySet(given) == given["body"] # "unset"

\* "if compareStatusCode || ... { ... compareBodyContent = false }"
compareBodyContent(given) ==
    IF /\ \E name \in OtherComparisons : Value(given, name)
       /\ Value(given, "body")
       /\ ~bodyFlagExplicitlySet(given)
    THEN FALSE
    ELSE Value(given, "body")

\* "options := curlmin.Options{...}"
OptionsOf(given) ==
    [MinimizeHeaders |-> Value(given, "headers"),
     MinimizeCookies |-> Value(given, "cookies"),
     MinimizeParams |-> Value(given, "params"),
     Verbose |-> Value(given, "verbose"),
     CompareStatusCode |-> Value(given, "status"),
     CompareBodyContent |-> compareBodyContent(given),
     CompareWordCount |-> Value(given, "words"),
     CompareLineCount |-> Value(given, "lines"),
     CompareByteCount |-> Value(given, "bytes")]

\* curl -H 'X-A: 1' -b 'a=1' 'http://h/?p=1'
CliInput == GenInput(1, "-b", 1, 1, FALSE)

CliInit ==
    /\ flags \in {[given |-> g, parsed |-> FALSE] : g \in CommandLines}
    /\ options = Options(TRUE, TRUE, TRUE, {"body"})
    /\ oracle = AnyOracle
    /\ input = CliInput
    /\ Unstarted

\* Run, up to "min := curlmin.New(options)"
Run ==
    /\ ~flags.parsed
    /\ flags' = [flags EXCEPT !.parsed = TRUE]
    /\ options' = OptionsOf(flags.given)
    /\ UNCHANGED <<oracle, input, curl, baselineResp, pc, err, result, idxs, i, j,
                   todo, memo, passes, start, last, run, first, probe, calls,
                   fault, exec, trace, ran, tried, compared>>

\* "min.MinimizeCurlCommand(curlCmd)"
Called == flags.parsed /\ Engine

SpecCli == CliInit /\ [][Run \/ Called]_vars

-----------------------------------------------------------------------------
\* The properties

\* C1 (safety): against a deterministic oracle, the command a run returns is
\* judged equivalent to the baseline when it is executed once more
C1_Safety == (pc = "probed" /\ probe.kind = "self") => probe.accepted

\* C2 (1-minimality): with all three categories enabled and a deterministic
\* oracle, the returned command less any single header, cookie carrier, cookie
\* entry or query parameter is not judged equivalent to the baseline
C2_OneMinimal ==
    (/\ pc = "probed"
     /\ options.MinimizeHeaders /\ options.MinimizeCookies /\ options.MinimizeParams
     /\ probe.kind \in {"header", "carrier", "entry", "param"})
    => ~probe.accepted

\* C3 (required set): against a server that answers as to the baseline
\* exactly when every required element is in the request, a run with all
\* categories enabled returns a command whose request has the required
\* elements and, besides them, nothing but auth_key (when the input has it),
\* and that has no cookie carrier without a required entry
C3_RequiredSet ==
    (pc = "done" /\ err = "" /\ run = "first" /\ oracle.kind = "req")
    => /\ Request(result) =
            oracle.required
            \cup (Request(input) \cap {[cat |-> "param", name |-> <<"auth_key">>]})
       /\ Len(FindCookieArgs(ParseCurlCommand(result).Args))
            <= Cardinality({e \in oracle.required : e.cat = "cookie"})

\* C4 (idempotence): a run on the output of a run, with the same options
\* against the same deterministic oracle, returns that output unchanged
C4_Idempotent ==
    (pc = "done" /\ run = "second") => (err = "" /\ result = first.result)

\* C5 (protected key): auth_key is never the parameter a tested candidate
\* removes, every executed candidate of an input with auth_key has auth_key,
\* and so has the returned command, whatever the oracle answered and whichever
\* categories are enabled
HasAuthKey(cmd) == [cat |-> "param", name |-> <<"auth_key">>] \in Request(cmd)

C5_Protected ==
    /\ last.cat = "param" => last.elem # <<"auth_key">>
    /\ (last.executed /\ HasAuthKey(input)) => HasAuthKey(last.cmd)
    /\ (pc = "done" /\ err = "" /\ HasAuthKey(input)) => HasAuthKey(result)

\* a run that removed every other parameter of a URL with auth_key
C5_Witness ==
    /\ pc = "done" /\ err = ""
    /\ HasAuthKey(input)
    /\ last.cat = "param" /\ last.accepted
    /\ {e \in Request(result) : e.cat = "param"} =
           {[cat |-> "param", name |-> <<"auth_key">>]}
    /\ Cardinality({e \in Request(input) : e.cat = "param"}) = MaxParams + 1

\* C6 (determinism): a second run on the same input, with the same options
\* against the same deterministic oracle, returns what the first run returned
C6_Deterministic ==
    (pc = "done" /\ run = "replay") => (err = "" /\ result = first.result)

\* the category a position of the engine belongs to, and the candidates of a
\* category in a command
Category(c) ==
    CASE c = "hdrLoop" -> "headers"
      [] c \in {"ckArg", "ckEntry"} -> "cookies"
      [] c = "qLoop" -> "params"
      [] OTHER -> "none"

Candidates(cat, args) ==
    CASE cat = "headers" -> HeaderCount(args)
      [] cat = "cookies" -> CookieCount(args)
      [] cat = "params" -> ParamCount(args)
      [] OTHER -> 0

PassesBounded == Category(pc) # "none" => passes <= start + 1

TestStep ==
    Category(pc) # "none" =>
        /\ last'.accepted =>
               /\ passes' = passes + 1
               /\ Candidates(Category(pc), curl') < Candidates(Category(pc), curl)
        /\ ~last'.accepted => (curl' = curl /\ passes' = passes)
        /\ (Category(pc') # Category(pc) /\ last'.accepted) =>
               Candidates(Category(pc), curl') = 0

\* C7 (termination): whatever the oracle answers, a category makes at most
\* (its candidates at the start + 1) passes; a commit starts a new pass and
\* leaves strictly fewer candidates of the category; a rejection changes
\* nothing and continues the pass; the category is left after a commit only
\* when no candidate remains; and every run that starts returns
C7_Terminates ==
    /\ []PassesBounded
    /\ [][TestStep]_vars
    /\ (pc = "start") ~> (pc = "done")

\* a run whose query-parameter reduction made as many passes as it may
C7_Witness ==
    /\ pc = "done" /\ err = ""
    /\ options.MinimizeParams
    /\ start = MaxParams
    /\ passes = start + 1

\* the flags whose next word is their value
ValueFlags == HeaderFlags \cup CookieFlags \cup {<<"-X">>, <<"-d">>}

\* the words of args at the positions idx, in order, without their quotes
Picked(args, idx) ==
    [n \in 1..Cardinality(idx) |-> Trim(args[Nth(idx, n)], QuoteChars)]

\* the header values, the header values that are no Cookie header, the cookie
\* strings, and the query strings of the URL operands of a command
HeaderValues(args) ==
    Picked(args, {k \in 2..Len(args) : args[k - 1] \in HeaderFlags})

PlainHeaders(args) ==
    Picked(args, {k \in 2..Len(args) :
        args[k - 1] \in HeaderFlags /\ ~IsCookieHeader(Trim(args[k], QuoteChars))})

CookieValues(args) ==
    Picked(args, {k \in 2..Len(args) :
        \/ args[k - 1] \in CookieFlags
        \/ args[k - 1] \in HeaderFlags /\ IsCookieHeader(Trim(args[k], QuoteChars))})

RawQueryOf(w) == IF UrlParse(w).err THEN <<>> ELSE UrlParse(w).RawQuery

Queries(args) ==
    Picked(args, {k \in 2..Len(args) :
        /\ ~StartsWithDash(args[k])
        /\ args[k - 1] \notin ValueFlags
        /\ RawQueryOf(Trim(args[k], QuoteChars)) # <<>>})

Only(h, c, p) ==
    /\ options.MinimizeHeaders = h
    /\ options.MinimizeCookies = c
    /\ options.MinimizeParams = p

Frame(a, r) ==
    /\ Only(TRUE, FALSE, FALSE) =>
           CookieValues(r) = CookieValues(a) /\ Queries(r) = Queries(a)
    /\ Only(FALSE, TRUE, FALSE) =>
           PlainHeaders(r) = PlainHeaders(a) /\ Queries(r) = Queries(a)
    /\ Only(FALSE, FALSE, TRUE) =>
           HeaderValues(r) = HeaderValues(a) /\ CookieValues(r) = CookieValues(a)

\* C8 (frame): with only MinimizeHeaders enabled the returned command has the
\* cookie strings and query strings of the input; with only MinimizeCookies
\* enabled it has the input's non-cookie headers and query strings; with only
\* MinimizeParams enabled it has the input's headers and cookie strings; and
\* header reduction never tests a header whose value begins, in any case,
\* with "cookie:"
C8_Frame ==
    /\ (pc = "done" /\ err = "" /\ run = "first")
           => Frame(ParseCurlCommand(input).Args, ParseCurlCommand(result).Args)
    /\ last.cat = "header" => ~IsCookieHeader(last.elem)

\* the predicates compareResponses applies under opts: the enabled ones, or
\* body-content equality when none is enabled
Active(opts) ==
    IF \E key \in ComparisonKeys : OptionsMap(opts)[key]
    THEN {key \in ComparisonKeys : OptionsMap(opts)[key]}
    ELSE {"body"}

\* only status code and word count are enabled, and the two responses agree
\* on both but differ in byte length
StatusAndWords ==
    /\ compared.called
    /\ Active(compared.before) = {"status", "words"}
    /\ compared.resp1.StatusCode = compared.resp2.StatusCode
    /\ WordCount(compared.resp1.Body) = WordCount(compared.resp2.Body)
    /\ Len(compared.resp1.Body) # Len(compared.resp2.Body)

\* C9 (predicate set): compareResponses returns true exactly when every
\* active predicate agrees on the two responses, so a predicate that is not
\* active has no influence; with only status code and word count enabled, two
\* responses of equal status and word count and different byte length are
\* equivalent
C9_ActiveSet ==
    /\ compared.called =>
           (compared.equal <=>
               \A key \in Active(compared.before) :
                   Comparison(key, compared.resp1, compared.resp2))
    /\ StatusAndWords => compared.equal

C9_Witness == StatusAndWords /\ compared.equal

NoneEnabled(opts) == \A key \in ComparisonKeys : ~OptionsMap(opts)[key]

\* C10 (default): when no comparison option is enabled, compareResponses
\* returns true exactly when the two bodies are equal, as with
\* CompareBodyContent alone, and the options are after the call what they
\* were before it
C10_Default ==
    (compared.called /\ NoneEnabled(compared.before)) =>
        /\ compared.equal <=> (compared.resp1.Body = compared.resp2.Body)
        /\ compared.equal <=>
               compareResponses(AllEnabled({"body"}), compared.resp1, compared.resp2)
        /\ options = compared.before

\* no option enabled, equal status, different bodies of equal length
C10_Witness ==
    /\ compared.called /\ NoneEnabled(compared.before)
    /\ compared.resp1.StatusCode = compared.resp2.StatusCode
    /\ compared.resp1.Body # compared.resp2.Body
    /\ Len(compared.resp1.Body) = Len(compared.resp2.Body)
    /\ ~compared.equal

\* C11: when the baseline execution fails the run ends with that error, it
\* yields no reduced invocation, and no candidate is ever tested: the
\* baseline is the only command line executed
C11_BaselineFatal ==
    err = "baseline" =>
        /\ pc = "done"
        /\ result = <<>>
        /\ last = NoTest
        /\ Len(calls) = 1
        /\ passes = 0

C11_Witness ==
    /\ pc = "done"
    /\ err = "baseline"
    /\ options.MinimizeHeaders /\ options.MinimizeCookies /\ options.MinimizeParams
    /\ input = JointInput

\* a candidate's test that ended in an execution error
FailedTest == Category(pc) # "none" /\ last'.failed

\* C12: an execution error on a candidate means "not removable": the
\* element is kept (the working command is unchanged and nothing is
\* committed), the engine goes on with the next candidate or category, and
\* the error never surfaces: a run whose baseline succeeded returns a
\* reduced command and no error
C12_Absorbed ==
    /\ [][FailedTest =>
             /\ ~last'.accepted
             /\ curl' = curl
             /\ passes' = passes
             /\ err' = ""
             /\ pc' # "done"]_vars
    /\ []((pc = "done" /\ Len(calls) >= 1 /\ baselineResp # NoResp) =>
             (err = "" /\ result = ToString(curl)))

\* a finished run in which the last candidate's execution failed
C12_Witness ==
    /\ pc = "done"
    /\ err = ""
    /\ last.failed
    /\ last.executed
    /\ Len(calls) >= 3

\* the name of a header, in lower case
HeaderName(headerStr) == ToLower(TrimSpace(Cut(headerStr, ":").before))

\* the names of the cookie entries of a carrier's value, as minimizeCookies
\* splits it
EntryNames(headerStr) ==
    LET cookies == Split(IF IsCookieHeader(headerStr) THEN StripCookiePrefix(headerStr)
                         ELSE headerStr, ";")
    IN  {CookieName(cookies[e]) : e \in {k \in 1..Len(cookies) : NextEntry(cookies, k) = k}}

\* the element elem of category cat is in the command args, as the reducers
\* find their candidates: a header of that name, a cookie carrier of those
\* entries, a cookie entry of that name, a query parameter of that name
Present(args, cat, elem) ==
    CASE cat = "header" ->
             \E n \in 1..Len(FindHeaderArgs(args)) :
                 HeaderName(HeaderStr(args, FindHeaderArgs(args)[n])) = HeaderName(elem)
      [] cat = "carrier" ->
             \E n \in 1..Len(FindCookieArgs(args)) :
                 EntryNames(HeaderStr(args, FindCookieArgs(args)[n])) = EntryNames(elem)
      [] cat = "entry" ->
             \E n \in 1..Len(FindCookieArgs(args)) :
                 \E e \in 1..Len(CarrierCookies(args, FindCookieArgs(args)[n])) :
                     CookieName(CarrierCookies(args, FindCookieArgs(args)[n])[e]) = elem
      [] cat = "param" -> QueryOf(args).ok /\ elem \in Keys(QueryOf(args).query)
      [] OTHER -> FALSE

\* the run has returned, and exactly one execution failed: a candidate's
OneFault == pc = "done" /\ err = "" /\ fault.n = 1

\* C13 as stated: when the execution of the candidate that removes e fails
\* once and every other execution succeeds, e is in the returned command
C13_Kept ==
    OneFault => Present(ParseCurlCommand(result).Args, fault.cat, fault.elem)

\* C13, amended: e is in the returned command unless the reducer of e's
\* category committed a removal after the fault (it then starts a new pass,
\* which tests the removal of e again); while no such removal is committed,
\* e is in the working command
C13_KeptUnlessRetried ==
    /\ (OneFault /\ ~fault.later) =>
           Present(ParseCurlCommand(result).Args, fault.cat, fault.elem)
    /\ (fault.n = 1 /\ ~fault.later) => Present(curl, fault.cat, fault.elem)

\* a returned command that lost other elements and kept the one whose
\* candidate failed
C13_Witness ==
    /\ OneFault
    /\ ~fault.later
    /\ result # input
    /\ Present(ParseCurlCommand(result).Args, fault.cat, fault.elem)

\* C14: when the command line cannot be parsed, MinimizeCurlCommand returns
\* an error before any oracle call: nothing was executed, no baseline was
\* taken, no candidate was tested and no command is returned; and a text the
\* shell parser rejects always ends this way
C14_ParseFirst ==
    /\ err = "parse" =>
           /\ pc = "done"
           /\ calls = <<>>
           /\ memo = <<>>
           /\ baselineResp = NoResp
           /\ last = NoTest
           /\ result = <<>>
    /\ (pc # "start" /\ ShellWords(input).err) => (err = "parse" /\ calls = <<>>)

C14_Witness ==
    /\ pc = "done"
    /\ err = "parse"
    /\ input = BadInput
    /\ calls = <<>>
    /\ options.MinimizeHeaders

\* the text has no statement, or a first word that does not hold "curl"
NoStatements(text) ==
    ~ShellWords(TrimSpace(text)).err /\ ShellWords(TrimSpace(text)).words = <<>>

OtherProgram(text) ==
    /\ ~ShellWords(TrimSpace(text)).err
    /\ ShellWords(TrimSpace(text)).words # <<>>
    /\ \A n \in 1..Len(ShellWords(TrimSpace(text)).words[1]) :
           LowerOf(ShellWords(TrimSpace(text)).words[1][n]) # "curl"

\* C15: ParseCurlCommand fails when the first token of the text is not
\* recognizable as the curl command name, and when the text has no statement
C15_Rejects ==
    (pc = "parsed" /\ (NoStatements(input) \/ OtherProgram(input))) => err = "parse"

\* minimizeQueryParams cannot find the URL of args, or parse it, or decode
\* its query
UrlFailure(args) ==
    \/ FindURLArg(args).err
    \/ /\ ~FindURLArg(args).err
       /\ LET u == UrlParse(Trim(args[FindURLArg(args).index], QuoteChars))
          IN  u.err \/ (u.RawQuery # <<>> /\ ParseQuery(u.RawQuery).err)

\* C16: a failure to locate the URL, to parse it or to decode its query ends
\* query-parameter reduction only: the step that meets the failure leaves
\* the working command, with every header and cookie removal committed
\* before, as it is, executes nothing and goes to the end of the run, which
\* returns that command and no error
C16_OnlyParams ==
    /\ [][(pc = "params" /\ options.MinimizeParams /\ UrlFailure(curl)) =>
              /\ pc' = "finish"
              /\ curl' = curl
              /\ calls' = calls
              /\ err' = ""]_vars
    /\ [][pc = "finish" =>
              (pc' = "done" /\ result' = ToString(curl) /\ curl' = curl /\ err' = "")]_vars
    /\ []((pc = "done" /\ err = "") => result = ToString(curl))

\* a run that removed a header or a cookie, could not find the URL, and
\* returned the command it had reached
C16_Witness ==
    /\ pc = "done"
    /\ err = ""
    /\ options.MinimizeParams
    /\ FindURLArg(curl).err
    /\ Len(curl) < Len(ParseCurlCommand(input).Args)
    /\ result = ToString(curl)

\* the candidates of a reducer in args, each with its position
Elements(reducer, args) ==
    CASE reducer = "headers" ->
             {[cat |-> "header", elem |-> HeaderStr(args, FindHeaderArgs(args)[k]),
               at |-> FindHeaderArgs(args)[k]] :
                 k \in {n \in 1..Len(FindHeaderArgs(args)) :
                           NextHeader(args, FindHeaderArgs(args), n) = n}}
      [] reducer = "cookies" ->
             {[cat |-> "carrier", elem |-> HeaderStr(args, FindCookieArgs(args)[k]),
               at |-> FindCookieArgs(args)[k]] : k \in 1..Len(FindCookieArgs(args))}
             \cup
             UNION {{[cat |-> "entry",
                      elem |-> CookieName(CarrierCookies(args, FindCookieArgs(args)[k])[e]),
                      at |-> FindCookieArgs(args)[k]] :
                        e \in {n \in 1..Len(CarrierCookies(args, FindCookieArgs(args)[k])) :
                                  NextEntry(CarrierCookies(args, FindCookieArgs(args)[k]), n) = n}} :
                    k \in 1..Len(FindCookieArgs(args))}
      [] reducer = "params" ->
             IF QueryOf(args).ok
             THEN {[cat |-> "param", elem |-> k, at |-> 0] :
                      k \in Keys(QueryOf(args).query) \ {AuthKey}}
             ELSE {}
      [] OTHER -> {}

Rank(cat) ==
    CASE Reducer(cat) = "headers" -> 1
      [] Reducer(cat) = "cookies" -> 2
      [] Reducer(cat) = "params" -> 3
      [] OTHER -> 0

\* a step of a run in the fixed order
OrderedStep ==
    /\ Rank(last'.cat) >= Rank(last.cat)
    /\ Category(pc) # "none" => Reducer(last'.cat) = Category(pc)
    /\ (Category(pc) # "none" /\ Category(pc') # Category(pc)) =>
           Elements(Category(pc), curl') \subseteq tried'

\* C17: the candidates are tested in the order headers, cookies, query
\* parameters: the category of the tests never goes back; every test made in
\* a reducer's loop is of that reducer's category; and a reducer is left only
\* at its fixed point, when every candidate of its category in the working
\* command was rejected in the pass that ends (or none is left)
C17_FixedOrder == [][OrderedStep]_vars

\* a run that tested candidates of all three categories, committed one of the
\* first two, and ended with a pass that rejected every query parameter
C17_Witness ==
    /\ pc = "done"
    /\ options.MinimizeHeaders /\ options.MinimizeCookies /\ options.MinimizeParams
    /\ last.cat = "param"
    /\ ~last.accepted
    /\ Elements("params", curl) # {}
    /\ Elements("params", curl) \subseteq tried
    /\ Len(curl) < Len(ParseCurlCommand(input).Args)
    /\ \E n \in 1..Len(calls) : calls[n] = ToString(RemoveArg(ParseCurlCommand(input).Args, 2))

\* C18: a run with Verbose set, on the same input with the same other
\* options against the same deterministic oracle, executes the command lines
\* the run without Verbose executed, in the same order, and returns the same
\* command
C18_VerboseSame ==
    (pc = "done" /\ run = "verbose") =>
        (err = "" /\ calls = first.calls /\ result = first.result)

\* c and d have the same number of tokens and the same resolved headers,
\* cookie strings and query strings
SameResolved(c, d) ==
    /\ Len(c) = Len(d)
    /\ HeaderValues(c) = HeaderValues(d)
    /\ CookieValues(c) = CookieValues(d)
    /\ Queries(c) = Queries(d)

\* C19 (round trip): the working command of a run, as parsed and as the
\* commits of RemoveArg, RemoveCookieFromArg and the URL rewrite left it,
\* prints to a text that parses, to as many tokens, with the same resolved
\* headers, cookie entries and query parameters
C19_RoundTrip ==
    (pc \notin {"start", "parsed"} /\ err = "") =>
        (~CopyOf(curl).err /\ SameResolved(CopyOf(curl).Args, curl))

\* a step of a run that leaves the working command alone unless it is the
\* commit after an accepted test
CommitOnly ==
    /\ (Category(pc) # "none" /\ ~last'.accepted) => curl' = curl
    /\ (pc # "start" /\ curl' # curl) =>
           /\ Category(pc) # "none"
           /\ last'.executed /\ last'.accepted /\ ~last'.failed
           /\ last'.cmd # ToString(curl)

\* C20: testing a candidate never changes the working command: after a test
\* that was rejected or that failed (at the copy, at the edit or at the
\* execution) the working command has the tokens it had, in the same order;
\* it changes only at the commit that follows an accepted test
C20_CommitOnly == [][CommitOnly]_vars

\* after a commit, a second candidate of the pass is kept because its
\* execution failed: the working command is not the command tested
C20_Witness ==
    /\ passes >= 2
    /\ last.executed
    /\ ~last.accepted
    /\ last.failed
    /\ last.cmd # ToString(curl)
    /\ tried # {}
    /\ Cardinality(tried) >= 2

\* a commit: the step of a reducer's loop whose test was accepted
Commit == Category(pc) # "none" /\ last'.accepted

\* C21: a commit applies exactly the removal that was tested: right after
\* every commit the working command prints to the command line that was
\* executed and judged equal to the baseline
C21_CommitTested == [][Commit => ToString(curl') = last'.cmd]_vars

\* the cookie string a server reads from a carrier's value: what follows the
\* header name of a Cookie header of any capitalization, or the whole value
\* of a cookie flag
SentCookies(v) == IF IsCookieHeader(v) THEN Cut(v, ":").after ELSE v

\* the entries of a cookie string, trimmed, in order, without the empty ones
RECURSIVE Trimmed(_)
Trimmed(cookies) ==
    IF cookies = <<>> THEN <<>>
    ELSE (IF TrimSpace(Head(cookies)) = <<>> THEN <<>> ELSE <<TrimSpace(Head(cookies))>>)
         \o Trimmed(Tail(cookies))

\* the cookie entries of all the carriers of a command, in order
RECURSIVE AllEntries(_)
AllEntries(carriers) ==
    IF carriers = <<>> THEN <<>>
    ELSE Trimmed(Split(SentCookies(Head(carriers)), ";")) \o AllEntries(Tail(carriers))

\* the decoded query parameters of all the URL operands of a command, in order
RECURSIVE AllPairs(_)
AllPairs(queries) ==
    IF queries = <<>> THEN <<>>
    ELSE ParseQuery(RawQueryOf(Head(queries))).pairs \o AllPairs(Tail(queries))

\* t is s without one of its members
OneDropped(s, t) == \E k \in 1..Len(s) : t = Drop(s, {k})

\* the candidate c is the working command w without one element of the
\* category cat and with everything else as it was
OneElementRemoved(w, c, cat) ==
    CASE cat = "header" ->
             /\ OneDropped(PlainHeaders(w), PlainHeaders(c))
             /\ CookieValues(c) = CookieValues(w)
             /\ Queries(c) = Queries(w)
      [] cat = "carrier" ->
             /\ OneDropped(CookieValues(w), CookieValues(c))
             /\ PlainHeaders(c) = PlainHeaders(w)
             /\ Queries(c) = Queries(w)
      [] cat = "entry" ->
             /\ OneDropped(AllEntries(CookieValues(w)), AllEntries(CookieValues(c)))
             /\ PlainHeaders(c) = PlainHeaders(w)
             /\ Queries(c) = Queries(w)
      [] cat = "param" ->
             /\ \E key \in Keys(AllPairs(Queries(w))) :
                    AllPairs(Queries(c)) = Without(AllPairs(Queries(w)), key)
             /\ HeaderValues(c) = HeaderValues(w)
             /\ CookieValues(c) = CookieValues(w)
      [] OTHER -> FALSE

\* C22: every candidate that is executed is the working command without
\* exactly one element (a header, a cookie carrier, a cookie entry or a query
\* key): every other header, cookie entry and query parameter is in the
\* candidate with its value, in the same relative order
C22_OneElement ==
    [][(Category(pc) # "none" /\ last'.executed) =>
           OneElementRemoved(curl, ParseCurlCommand(last'.cmd).Args, last'.cat)]_vars

\* where the engine is: the loop, the indices it ranges over and its place
Position == [pc |-> pc, idxs |-> idxs, i |-> i, j |-> j, todo |-> todo]

\* the start of a pass of a reducer over args
PassStart(reducer, args) ==
    CASE reducer = "headers" -> HeaderPass(args)
      [] reducer = "cookies" -> CookiePass(args)
      [] OTHER -> QueryPass(args)

\* the indices and keys in use are those of the working command
Fresh ==
    /\ pc = "hdrLoop" => idxs = FindHeaderArgs(curl) /\ i \in 1..Len(idxs)
    /\ pc \in {"ckArg", "ckEntry"} => idxs = FindCookieArgs(curl) /\ i \in 1..Len(idxs)
    /\ pc = "ckEntry" => j \in 1..Len(CarrierCookies(curl, idxs[i]))
    /\ pc = "qLoop" => todo \subseteq Keys(QueryOf(curl).query)

\* C23 (commit and restart): the step that commits a removal abandons the
\* pass: the engine is then at the start of a pass over the candidates
\* recomputed from the shrunk working command (or has left the reducer when
\* none is left), and the indices and keys it uses are at all times those
\* of the working command as it is
C23_Restart ==
    /\ [][Commit => Position' = PassStart(Category(pc), curl')]_vars
    /\ []Fresh

\* after the first header was kept and the second removed, a new pass is at
\* the first header again
C23_Witness ==
    /\ pc = "hdrLoop"
    /\ last.accepted
    /\ last.cat = "header"
    /\ passes = 2
    /\ i = 1
    /\ Len(calls) >= 3
    /\ last.elem # HeaderStr(curl, idxs[1])
    /\ Len(idxs) >= 1
    /\ tried = {}

\* the whole carrier at index at was tested in this pass and kept
CarrierKept(at) == \E t \in tried : t.cat = "carrier" /\ t.at = at

\* C24 (two levels of the cookie reduction): in a pass the entries of a
\* carrier are tested only after the removal of the whole carrier was tested
\* and not accepted in that pass, and the whole carrier is tested before
\* anything of it or of a later carrier; this is so for a Cookie header and
\* for a -b/--cookie argument alike
C24_TwoLevel ==
    /\ pc = "ckEntry" => CarrierKept(idxs[i])
    /\ pc = "ckArg" => \A t \in tried : t.at < idxs[i]
    /\ \A t \in tried : t.cat = "entry" => CarrierKept(t.at)
    /\ \A t \in tried : t.cat = "carrier" =>
           /\ \E k \in 1..Len(FindCookieArgs(curl)) : FindCookieArgs(curl)[k] = t.at
           /\ t.elem = HeaderStr(curl, t.at)

\* the header "cookie: a=1; flag" was kept whole, then its entry a, then the
\* argument of --cookie, whose entry b is next
C24_Witness ==
    /\ pc = "ckEntry"
    /\ Len(idxs) = 2
    /\ i = 2
    /\ IsCookieHeader(HeaderStr(curl, idxs[1]))
    /\ ~IsCookieHeader(HeaderStr(curl, idxs[2]))
    /\ CarrierKept(idxs[1])
    /\ CarrierKept(idxs[2])
    /\ \E t \in tried : t.cat = "entry" /\ t.at = idxs[1]

\* args without the candidate e
Shrunk(args, e) ==
    CASE e.cat \in {"header", "carrier"} -> RemoveArg(args, e.at)
      [] e.cat = "entry" ->
             RemoveCookieFromArg(args, e.at, e.elem,
                                 IsCookieHeader(HeaderStr(args, e.at))).Args
      [] OTHER -> [args EXCEPT ![QueryOf(args).urlIndex] =
                                   UrlWithout(QueryOf(args), e.elem)]

\* the test of candidate e against args, as the pass that ends recorded it
TestOf(args, e) ==
    [cat |-> e.cat, elem |-> e.elem, at |-> e.at, cmd |-> ToString(Shrunk(args, e))]

\* the step that leaves a reducer
Leaves == Category(pc) # "none" /\ Category(pc') # Category(pc)

\* C25 (fixed point of a category): when a reducer ends, the pass that ends
\* has executed, for every candidate of the category in the working command
\* (every header that is not a Cookie header; every cookie carrier and each
\* of its name=value entries; every query key but auth_key), the working
\* command as it is then without that candidate, and has accepted none
C25_FixedPoint ==
    [][Leaves => \A e \in Elements(Category(pc), curl') : TestOf(curl', e) \in ran']_vars

\* the command line MinimizeCurlCommand executes for the baseline
Original ==
    ToString(ParseCurlCommand(IF PreprocessCurlCommand(input).err THEN input
                              ELSE PreprocessCurlCommand(input).text).Args)

\* the baseline of a run that got one is the response to the original command
FromOriginal ==
    (pc # "start" /\ err = "") =>
        /\ calls # <<>>
        /\ calls[1] = Original
        /\ baselineResp \in oracle.answers
        /\ oracle.kind = "req" =>
               Returned(baselineResp) = ServerOutcome(oracle.required, Original)

\* a step of a run keeps the baseline, and a test is accepted exactly when
\* it was executed without error and its response compares equal to it
BaselineKept ==
    /\ pc # "start" => baselineResp' = baselineResp
    /\ Category(pc) # "none" =>
           last'.accepted = (/\ last'.executed
                             /\ ~last'.failed
                             /\ compareResponses(options, baselineResp, last'.resp))

\* C26: the baseline response is captured once, by executing the original
\* command before any test; no later step of the run changes it; and every
\* test is decided by comparing its response with that baseline
C26_Baseline == [][BaselineKept]_vars /\ []FromOriginal

\* after a commit, a test whose response differs from the baseline was
\* executed and rejected
C26_Witness ==
    /\ passes >= 2
    /\ Len(calls) >= 3
    /\ last.executed
    /\ ~last.failed
    /\ ~last.accepted
    /\ last.resp # baselineResp
    /\ baselineResp = RespOK
    /\ oracle.kind = "req"

\* the words of args from position a to the end
From(args, a) == SubSeq(args, a, Len(args))

\* C27: RemoveArg at an index (here position i, the source's index plus one)
\* removes the word there, and with it the following word when the word
\* there starts with '-' and a following word exists that does not start
\* with '-'; it removes nothing when the index is below 1 or not below the
\* number of words; all other words stay, in their order
C27_RemoveArg ==
    pc = "removed" =>
        IF i < 2 \/ i > Len(curl)
        THEN result = curl
        ELSE IF /\ i < Len(curl)
                /\ StartsWithDash(curl[i])
                /\ ~StartsWithDash(curl[i + 1])
             THEN result = SubSeq(curl, 1, i - 1) \o From(curl, i + 2)
        ELSE result = SubSeq(curl, 1, i - 1) \o From(curl, i + 1)

\* a flag and its value were removed from between two other words
C27_Witness ==
    /\ pc = "removed"
    /\ Len(curl) = 4
    /\ i = 2
    /\ StartsWithDash(curl[2])
    /\ ~StartsWithDash(curl[3])
    /\ result = <<curl[1], curl[4]>>

\* the entries of the cookie string of the carrier at position at of args:
\* the words between the semicolons, trimmed, the empty ones left out
EntriesAt(args, at) == Trimmed(Split(SentCookies(HeaderStr(args, at)), ";"))

\* the entry is name=value for the given name
Named(entry, name) ==
    Cut(entry, "=").found /\ TrimSpace(Cut(entry, "=").before) = name

\* the entries that are not of the given name, in order
RECURSIVE Others(_, _)
Others(entries, name) ==
    IF entries = <<>> THEN <<>>
    ELSE (IF Named(Head(entries), name) THEN <<>> ELSE <<Head(entries)>>)
         \o Others(Tail(entries), name)

\* the step that commits the removal of an entry: RemoveCookieFromArg on the
\* working command
EntryCommit == pc = "ckEntry" /\ last'.cat = "entry" /\ last'.accepted

\* the carrier at position at of args is still there in after
Stays(args, after) == Len(after) = Len(args)

\* C28: RemoveCookieFromArg removes the entries of the given name and no
\* other: every other entry of the carrier (one without '=' and one whose
\* value ends with a quote too) is in the carrier afterwards, with its name
\* and value, in the same order, and the entries are joined by "; "
C28_OnlyNamed ==
    [][EntryCommit =>
          /\ Others(EntriesAt(curl, idxs[i]), last'.elem) # <<>> => Stays(curl, curl')
          /\ Stays(curl, curl') =>
                 /\ EntriesAt(curl', idxs[i]) = Others(EntriesAt(curl, idxs[i]), last'.elem)
                 /\ TrimSpace(SentCookies(HeaderStr(curl', idxs[i])))
                        = Join(Others(EntriesAt(curl, idxs[i]), last'.elem), <<";", " ">>)]_vars

\* the carrier under test is a header whose name is cookie in some
\* capitalization
HeaderCarrier == IsCookieHeader(HeaderStr(curl, idxs[i]))

\* C29: for a header carrier, whatever the capitalization of its name,
\* RemoveCookieFromArg with isHeader leaves one well-formed Cookie header:
\* the name Cookie, then the entries of the original header without the
\* removed one, joined by "; " (the header-name prefix is not among them)
C29_AnyCase ==
    [][(EntryCommit /\ HeaderCarrier /\ Stays(curl, curl')) =>
          /\ OneDropped(EntriesAt(curl, idxs[i]), EntriesAt(curl', idxs[i]))
          /\ HeaderStr(curl', idxs[i])
                 = <<"Cookie", ":", " ">> \o Join(EntriesAt(curl', idxs[i]), <<";", " ">>)]_vars

\* every cookie carrier of args has an entry
NoEmptyCarrier(args) ==
    \A k \in 1..Len(FindCookieArgs(args)) : EntriesAt(args, FindCookieArgs(args)[k]) # <<>>

\* the step removes the last entry of the carrier under test
LastEntry == EntryCommit /\ Others(EntriesAt(curl, idxs[i]), last'.elem) = <<>>

\* C30: when the removal of an entry leaves a carrier without entries,
\* RemoveCookieFromArg removes the carrier, its flag word and its value word
\* together, and everything else stays; after a commit no cookie carrier of
\* the working command is without entries
C30_NoEmptyCarrier ==
    /\ [][LastEntry => curl' = SubSeq(curl, 1, idxs[i] - 1) \o From(curl, idxs[i] + 2)]_vars
    /\ [][(Category(pc) # "none" /\ last'.accepted) => NoEmptyCarrier(curl')]_vars

\* both entries of the only carrier were removed one after the other, and
\* the carrier went with the second
C30_Witness ==
    /\ last.cat = "entry"
    /\ last.accepted
    /\ passes >= 3
    /\ Len(FindCookieArgs(ParseCurlCommand(input).Args)) = 1
    /\ FindCookieArgs(curl) = <<>>
    /\ Len(curl) = Len(ParseCurlCommand(input).Args) - 2
    /\ Len(calls) >= 4

\* the positions of the operands of args: the words that are no flag and no
\* value of a flag that takes one
Operands(args) ==
    {k \in 2..Len(args) : ~StartsWithDash(args[k]) /\ args[k - 1] \notin ValueFlags}

\* the decoded parameters of the URL word w
PairsOf(w) == ParseQuery(RawQueryOf(Trim(w, QuoteChars))).pairs

\* the pairs are in ascending order of their keys
KeysAscend(pairs) ==
    \A m \in 1..Len(pairs) : \A n \in m..Len(pairs) : KeyRank(pairs[m].k) <= KeyRank(pairs[n].k)

\* the parameters of key k, in order
OfKey(pairs, k) == SelectSeq(pairs, LAMBDA p : p.k = k)

\* after is before without the key param: the URL operand is rewritten, its
\* other parameters keep their values, the keys are ascending, and it is the
\* same URL up to the query; every other word is as it was
ParamRemoved(before, after, param) ==
    /\ Len(after) = Len(before)
    /\ \A k \in 1..Len(before) :
           IF k \in Operands(before) /\ RawQueryOf(Trim(before[k], QuoteChars)) # <<>>
           THEN /\ OfKey(PairsOf(after[k]), param) = <<>>
                /\ \A o \in Keys(PairsOf(before[k])) \ {param} :
                       OfKey(PairsOf(after[k]), o) = OfKey(PairsOf(before[k]), o)
                /\ Keys(PairsOf(after[k])) = Keys(PairsOf(before[k])) \ {param}
                /\ KeysAscend(PairsOf(after[k]))
                /\ UrlParse(Trim(after[k], QuoteChars)).Body
                       = UrlParse(Trim(before[k], QuoteChars)).Body
           ELSE after[k] = before[k]

\* the command the calls started from
GivenArgs == ParseCurlCommand(input).Args

\* C31: RemoveQueryParam(key) on a URL with a query deletes every value of
\* key and rewrites the URL word with the remaining parameters unchanged, in
\* ascending order of their keys; it leaves a URL without a query as it is;
\* a second call with the same key changes nothing; and two calls with
\* different keys give the same command in either order
C31_RemoveQueryParam ==
    (pc = "given" /\ calls # <<>>) =>
        /\ Len(calls) = 1 => ParamRemoved(GivenArgs, curl, calls[1])
        /\ (Len(calls) = 2 /\ calls[1] = calls[2]) =>
               curl = RemoveQueryParam(GivenArgs, calls[1]).Args
        /\ Len(calls) = 2 =>
               curl = RemoveQueryParam(RemoveQueryParam(GivenArgs, calls[2]).Args,
                                       calls[1]).Args

\* the positions of the URL words of args: the operands with an http scheme
UrlTokens(args) ==
    {k \in Operands(args) :
        UrlParse(Trim(args[k], QuoteChars)).Scheme \in {<<"http">>, <<"https">>}}

\* C32: FindURLArg returns the position of a URL word whenever the command
\* has one, also when the URL follows a flag that takes no value; it never
\* returns the position of the value of a flag; and it returns an error when
\* the command has no operand at all
C32_FindURLArg ==
    pc = "found" =>
        /\ UrlTokens(curl) # {} => err = "" /\ i \in UrlTokens(curl)
        /\ err = "" => i \in Operands(curl)
        /\ Operands(curl) = {} => err = "url"

\* the step tests a candidate: it executes its command line
Tests == Category(pc) # "none" /\ last'.executed

\* C33: in verbose mode every tested candidate, of every category and
\* whatever the outcome (accepted, rejected, execution error), gives exactly
\* one record, appended to the trace in the step that executed the
\* candidate: removed when the test was accepted and kept otherwise; no
\* other step prints a record
C33_OneRecord ==
    [][/\ Tests => trace' = Append(trace, [cat |-> last'.cat, elem |-> last'.elem,
                                            removed |-> last'.accepted])
       /\ ~Tests => trace' = trace]_vars

\* C34: every capture file that exists was created by the call of
\* executeCurlCommand in progress; when a call has returned, on whatever
\* path (success, no second file, nonzero exit of the client, a file that
\* cannot be read), none of its capture files exists
C34_Released ==
    /\ \A f \in exec.files : exec.at # "idle" /\ f.call = exec.n + 1
    /\ exec.at = "idle" => exec.files = {} /\ exec.deferred = {}
    /\ exec.at \in {"run", "wait", "readBody", "readHeaders"} =>
           exec.files = {Capture("response"), Capture("headers")}

\* a call that created both files and could not read the headers back has
\* returned, after a call that succeeded
C34_Witness ==
    /\ exec.at = "idle"
    /\ exec.n >= 2
    /\ exec.failed
    /\ exec.from = "readHeaders"
    /\ exec.files = {}
    /\ baselineResp # NoResp

\* C35: the executions of the client are sequential: at most one is in
\* flight; the first one is the baseline's, on the original command; and a
\* call of executeCurlCommand is in progress only when the engine has taken
\* up (compared and recorded) the result of every call before
C35_Sequential ==
    /\ exec.running <= 1
    /\ exec.running = 1 <=> exec.at = "wait"
    /\ exec.at # "idle" => exec.n = Len(calls)
    /\ (exec.at # "idle" /\ exec.n = 0) => pc = "start"
    /\ calls # <<>> => calls[1] = Original
    /\ exec.n \in {Len(calls), Len(calls) + 1}

\* the client runs for the third candidate, after the baseline and two
\* candidates whose results were compared
C35_Witness ==
    /\ exec.at = "wait"
    /\ exec.running = 1
    /\ exec.n = 3
    /\ Len(calls) = 3
    /\ last.executed
    /\ last.cmd = calls[3]

\* the members of a sequence
Members(seq) == {seq[n] : n \in 1..Len(seq)}

\* the number of headers, cookie entries and query parameters of args
Size(args) ==
    Len(PlainHeaders(args)) + Len(AllEntries(CookieValues(args)))
    + Len(AllPairs(Queries(args)))

\* every header, cookie entry and query key of args is one of those of orig
Within(args, orig) ==
    /\ Members(PlainHeaders(args)) \subseteq Members(PlainHeaders(orig))
    /\ Members(AllEntries(CookieValues(args)))
           \subseteq Members(AllEntries(CookieValues(orig)))
    /\ Keys(AllPairs(Queries(args))) \subseteq Keys(AllPairs(Queries(orig)))

\* C36: reduction only shrinks: in every state of a run the headers, cookie
\* entries and query keys of the working command are among those of the
\* original command, and no step makes their number larger
C36_OnlyShrinks ==
    /\ [](curl # <<>> => Within(curl, GivenArgs))
    /\ [][curl # <<>> => Size(curl') <= Size(curl)]_vars

\* the positions of the words of args that belong to no reducible category:
\* no header or cookie flag, no value of one, and not the URL
Outside(args) ==
    {k \in 2..Len(args) :
        /\ args[k] \notin HeaderFlags \cup CookieFlags
        /\ args[k - 1] \notin HeaderFlags \cup CookieFlags
        /\ k \notin UrlTokens(args)}

\* the words of s are words of t, in the order of s
RECURSIVE Embedded(_, _)
Embedded(s, t) ==
    IF s = <<>> THEN TRUE
    ELSE IF t = <<>> THEN FALSE
    ELSE IF Head(s) = Head(t) THEN Embedded(Tail(s), Tail(t))
    ELSE Embedded(s, Tail(t))

\* C37 (frame): the returned command has the program name and every word
\* of the input that is no header or cookie flag, no value of one and not
\* the URL (-X, -d, -s and their values), with the same text and in the
\* same order, whatever the oracle answered
C37_Untouched ==
    (pc = "done" /\ err = "") =>
        /\ ParseCurlCommand(result).Args[1] = GivenArgs[1]
        /\ Embedded(Picked(GivenArgs, Outside(GivenArgs)),
                    Picked(ParseCurlCommand(result).Args,
                           Outside(ParseCurlCommand(result).Args)))

\* C38 (equivalence): for every set of enabled predicates compareResponses
\* is an equivalence relation on responses: a response is equivalent to
\* itself, the answer does not depend on the order of the two responses, and
\* two responses equivalent to a common one are equivalent
C38_Equivalence ==
    compared.called =>
        /\ compareResponses(compared.before, compared.resp1, compared.resp1)
        /\ compared.equal <=>
               compareResponses(compared.before, compared.resp2, compared.resp1)
        /\ \A resp3 \in Responses :
               (compared.equal /\ compareResponses(compared.before, compared.resp2, resp3))
                   => compareResponses(compared.before, compared.resp1, resp3)

\* two different responses were judged equivalent under several predicates,
\* and a third one is equivalent to neither
C38_Witness ==
    /\ compared.called /\ compared.equal
    /\ compared.resp1 # compared.resp2
    /\ Cardinality(Active(compared.before)) >= 2
    /\ \E resp3 \in Responses :
           ~compareResponses(compared.before, compared.resp2, resp3)

\* the comparison flags selected on the command line
Selected == {name \in OtherComparisons : flags.given[name] = "true"}

\* C39 (command line): the options the CLI passes to the Minimizer compare
\* the body when no comparison flag is given; they hold exactly the selected
\* ones of --status, --words, --lines and --bytes; when one of these is
\* selected and --body is not on the command line the body comparison is
\* off; and --body on the command line keeps the body comparison on (and
\* --body=false keeps it off) whatever else is selected
C39_Selected ==
    flags.parsed =>
        /\ \A name \in OtherComparisons : OptionsMap(options)[name] <=> name \in Selected
        /\ flags.given["body"] = "unset" =>
               (options.CompareBodyContent <=> Selected = {})
        /\ flags.given["body"] = "true" => options.CompareBodyContent
        /\ flags.given["body"] = "false" => ~options.CompareBodyContent

\* a run that ended with --status and --words selected and --body given
C39_Witness ==
    /\ flags.parsed /\ pc = "done" /\ err = ""
    /\ Selected = {"status", "words"}
    /\ flags.given["body"] = "true"
    /\ Active(options) = {"status", "words", "body"}

====
